---- MODULE Spec2Model ----
\* Verification model of react-native-hyperliquid's action signing and wire
\* protocol: the numeric wire encoder, the order wire mapper, the action
\* builders and the ExchangeAPI operations that resolve assets, sign and submit.
\*
\* JavaScript numbers are modelled as exact decimals: sign, integer part, eight
\* fractional digits (f8) and TailDigits further fractional digits (tail), plus
\* the values toFixed treats specially (magnitudes >= 1e21, NaN, +-Infinity).
\* JavaScript strings are sequences of one-character strings.
\*
\* Byte buffers are sequences; a byte is [byte |-> 0..255]. The msgpack
\* encoding of an object is its map header byte followed, per key in insertion
\* order, by the encoded key and the encoded value, which stand for themselves.
\* A 64-bit unsigned integer is four 16-bit words, most significant first.
\* keccak256 is an injective constructor over the hashed buffer.
EXTENDS Integers, Sequences, FiniteSets, TLC

VARIABLES
    num_x,      \* numeric encoder: the argument x
    num_fn,     \* numeric encoder: the function applied to x ("none" before the call)
    num_out,    \* numeric encoder: what floatToWire produced (a string or an error)
    int_out,    \* numeric encoder: what floatToInt produced (an integer or an error)
    ow_order,   \* order mapper: the order passed to orderToWire / orderTypeToWire
    ow_asset,   \* order mapper: the asset index passed to orderToWire
    ow_fn,      \* order mapper: the function applied ("none" before the call)
    ow_type,    \* order mapper: what orderTypeToWire produced
    ow_wire,    \* order mapper: what orderToWire produced
    oa_orders,  \* order action: the wire orders passed to orderWiresToOrderAction
    oa_grouping, \* order action: the grouping passed
    oa_builder, \* order action: the builder passed (undefined when omitted)
    oa_action,  \* order action: what orderWiresToOrderAction returned
    api,        \* exchange: the ExchangeAPI object (wallet, IS_MAINNET)
    assetMap,   \* exchange: the symbol table behind symbolConversion.getAssetIndex
    clock,      \* exchange: Date.now()
    ex_op,      \* exchange: the ExchangeAPI method being called ("none" before the call)
    ex_reqs,    \* exchange: the orders / cancel requests / single symbol of the call
    ex_extra,   \* exchange: the other arguments of the call
    ex_pc,      \* exchange: where the call is
    ex_status,  \* exchange: per request, where its asset resolution is
    ex_idx,     \* exchange: per request, the index getAssetIndex returned
    ex_wires,   \* exchange: per request, the wire order / cancel entry built from it
    ex_cache,   \* exchange: placeOrder's assetIndexCache
    ex_calls,   \* exchange: calls of symbolConversion.getAssetIndex, by symbol
    ex_action,  \* exchange: the action object once built
    ex_signed,  \* exchange: the arguments handed to the signing function
    ex_sig,     \* exchange: what the signing function returned, with its wallet calls
    ex_payload, \* exchange: the payload handed to httpApi.makeRequest
    ex_out,     \* exchange: how the call's promise settled
    sg_fn,      \* signing: the function applied ("none" before the call)
    sg_action,  \* signing: the action passed
    sg_vault,   \* signing: the vault address passed (null or a string)
    sg_nonce,   \* signing: the nonce passed
    sg_mainnet, \* signing: the network flag passed
    sg_wallet,  \* signing: the wallet passed
    sg_calls,   \* signing: the calls made to the wallet's signTypedData
    sg_out,     \* signing: what the function returned
    cu_impl,    \* custom operations: the class constructed
    cu_walletAddress, \* custom operations: this.walletAddress (null when omitted)
    cu_convert, \* custom operations: the answers of symbolConversion.convertSymbol
    cu_fn,      \* custom operations: the method called ("none" before the call)
    cu_args,    \* custom operations: the arguments of the call
    cu_info,    \* custom operations: what the info API answered during the call
    cu_calls,   \* custom operations: the calls made to the ExchangeAPI
    cu_out,     \* custom operations: how the call's promise settled
    cc_id,      \* concurrent calls: which of the two calls the ex_ variables hold
    cc_other    \* concurrent calls: the call that is waiting at an await

numVars == <<num_x, num_fn, num_out, int_out>>
owVars == <<ow_order, ow_asset, ow_fn, ow_type, ow_wire>>
oaVars == <<oa_orders, oa_grouping, oa_builder, oa_action>>
exVars == <<api, assetMap, clock, ex_op, ex_reqs, ex_extra, ex_pc, ex_status, ex_idx,
            ex_wires, ex_cache, ex_calls, ex_action, ex_signed, ex_sig,
            ex_payload, ex_out>>
sgVars == <<sg_fn, sg_action, sg_vault, sg_nonce, sg_mainnet, sg_wallet, sg_calls, sg_out>>
cuVars == <<cu_impl, cu_walletAddress, cu_convert, cu_fn, cu_args, cu_info, cu_calls,
            cu_out>>
ccVars == <<cc_id, cc_other>>
vars == <<numVars, owVars, oaVars, exVars, sgVars, cuVars, ccVars>>

\* the variables each specification leaves alone
notNumVars == <<owVars, oaVars, exVars, sgVars, cuVars, ccVars>>
notOwVars == <<numVars, oaVars, exVars, sgVars, cuVars, ccVars>>
notOaVars == <<numVars, owVars, exVars, sgVars, cuVars, ccVars>>
notExVars == <<numVars, owVars, oaVars, sgVars, cuVars, ccVars>>
notSgVars == <<numVars, owVars, oaVars, exVars, cuVars, ccVars>>
notCuVars == <<numVars, owVars, oaVars, exVars, sgVars, ccVars>>

-----------------------------------------------------------------------------
\* Bounds and program constants

\* fractional digits kept below the eighth one (model precision 10^-(8+TailDigits))
TailDigits == 5

\* x.toFixed(8)
FracDigits == 8
\* floatToIntForHashing: floatToInt(x, 8)
HashingPower == 8
\* floatToUsdInt: floatToInt(x, 6)
UsdPower == 6
\* toFixed switches to Number::toString at 10^21 (ECMA-262 Number.prototype.toFixed)
ExpThreshold == 21

F8Mod == 10 ^ FracDigits
TailMod == 10 ^ TailDigits
\* 1e-12 in units of 10^-(8+TailDigits)
Eps12 == 10 ^ (FracDigits + TailDigits - 12)

-----------------------------------------------------------------------------
\* JavaScript numbers

Fin(neg, ip, f8, tail) ==
    [k |-> "fin", neg |-> neg, ip |-> ip, f8 |-> f8, tail |-> tail, exp |-> 0]
\* magnitude ip.f8 * 10^exp with 1 <= ip <= 9 and exp >= 21
Big(neg, ip, f8, exp) ==
    [k |-> "big", neg |-> neg, ip |-> ip, f8 |-> f8, tail |-> 0, exp |-> exp]
NaN == [k |-> "nan", neg |-> FALSE, ip |-> 0, f8 |-> 0, tail |-> 0, exp |-> 0]
Inf(neg) == [k |-> "inf", neg |-> neg, ip |-> 0, f8 |-> 0, tail |-> 0, exp |-> 0]

IsZero(x) == x.k = "fin" /\ x.ip = 0 /\ x.f8 = 0 /\ x.tail = 0
\* x < 0 (false for -0)
IsNegative(x) == x.k /= "nan" /\ x.neg /\ ~IsZero(x)
IsFiniteNum(x) == x.k \in {"fin", "big"}

\* a == b of JavaScript: NaN equals nothing, -0 equals 0
NumEq(a, b) ==
    /\ a.k /= "nan" /\ b.k /= "nan"
    /\ a.k = b.k
    /\ a.ip = b.ip /\ a.f8 = b.f8 /\ a.tail = b.tail /\ a.exp = b.exp
    /\ (a.neg = b.neg \/ (IsZero(a) /\ IsZero(b)))

\* magnitude of a "fin" number as a triple, compared and subtracted limb by limb
MagLess(a, b) ==
    \/ a.ip < b.ip
    \/ a.ip = b.ip /\ a.f8 < b.f8
    \/ a.ip = b.ip /\ a.f8 = b.f8 /\ a.tail < b.tail

\* hi - lo for magnitudes hi >= lo
MagMinus(hi, lo) ==
    LET t  == hi.tail - lo.tail
        bt == IF t < 0 THEN 1 ELSE 0
        f  == hi.f8 - lo.f8 - bt
        bf == IF f < 0 THEN 1 ELSE 0
    IN  Fin(FALSE, hi.ip - lo.ip - bf, f + bf * F8Mod, t + bt * TailMod)

MagPlus(a, b) ==
    LET t  == a.tail + b.tail
        ct == IF t >= TailMod THEN 1 ELSE 0
        f  == a.f8 + b.f8 + ct
        cf == IF f >= F8Mod THEN 1 ELSE 0
    IN  Fin(FALSE, a.ip + b.ip + cf, f - cf * F8Mod, t - ct * TailMod)

\* Math.abs(a - b) as the encoder uses it: both operands of the same kind
AbsDiff(a, b) ==
    CASE a.k = "nan" \/ b.k = "nan" -> NaN
      [] a.k = "inf" /\ b.k = "inf" -> IF a.neg = b.neg THEN NaN ELSE Inf(FALSE)
      [] a.k = "big" /\ b.k = "big" /\ NumEq(a, b) -> Fin(FALSE, 0, 0, 0)
      [] a.k = "fin" /\ b.k = "fin" ->
            IF a.neg = b.neg
            THEN IF MagLess(a, b) THEN MagMinus(b, a) ELSE MagMinus(a, b)
            ELSE MagPlus(a, b)

\* mutant: the comparison made strict (d > 1e-12)
GeEps12_Strict(d) ==
    CASE d.k = "nan" -> FALSE
      [] d.k = "inf" -> TRUE
      [] d.k = "big" -> TRUE
      [] d.k = "fin" -> d.ip > 0 \/ d.f8 > 0 \/ d.tail > Eps12

\* d >= 1e-12 for a non-negative d (false for NaN)
GeEps12(d) ==
    CASE d.k = "nan" -> FALSE
      [] d.k = "inf" -> TRUE
      [] d.k = "big" -> TRUE
      [] d.k = "fin" -> d.ip > 0 \/ d.f8 > 0 \/ d.tail >= Eps12

-----------------------------------------------------------------------------
\* JavaScript strings: sequences of characters

DigitChars == <<"0", "1", "2", "3", "4", "5", "6", "7", "8", "9">>
IsDigit(c) == \E i \in 1..10 : DigitChars[i] = c
DigitVal(c) == (CHOOSE i \in 1..10 : DigitChars[i] = c) - 1

RECURSIVE NatToStr(_)
NatToStr(n) ==
    IF n < 10 THEN <<DigitChars[n + 1]>>
    ELSE Append(NatToStr(n \div 10), DigitChars[(n % 10) + 1])

\* n written with exactly w digits (leading zeros)
RECURSIVE PadStr(_, _)
PadStr(n, w) ==
    IF w = 0 THEN <<>> ELSE Append(PadStr(n \div 10, w - 1), DigitChars[(n % 10) + 1])

RECURSIVE StrToNat(_)
StrToNat(s) ==
    IF s = <<>> THEN 0 ELSE StrToNat(SubSeq(s, 1, Len(s) - 1)) * 10 + DigitVal(s[Len(s)])

IndexOf(s, c) ==
    IF \E i \in 1..Len(s) : s[i] = c
    THEN CHOOSE i \in 1..Len(s) : s[i] = c /\ \A j \in 1..(i - 1) : s[j] /= c
    ELSE 0

AllZeros(s, from) == from <= Len(s) /\ \A j \in from..Len(s) : s[j] = "0"

RECURSIVE Zeros(_)
Zeros(n) == IF n <= 0 THEN <<>> ELSE <<"0">> \o Zeros(n - 1)

\* s.replace(/\.?0+$/, ''): the leftmost position where an optional '.' followed
\* by one or more '0' reaches the end of the string is cut off
StripTrailingZeros(s) ==
    LET matchAt(i) == \/ AllZeros(s, i)
                      \/ s[i] = "." /\ AllZeros(s, i + 1)
        starts == {i \in 1..Len(s) : matchAt(i)}
    IN  IF starts = {} THEN s
        ELSE SubSeq(s, 1, (CHOOSE i \in starts : \A j \in starts : i <= j) - 1)

Str_NaN == <<"N", "a", "N">>
Str_Infinity == <<"I", "n", "f", "i", "n", "i", "t", "y">>

\* Number::toString for a magnitude >= 1e21: d[.ddd]e+NN, shortest digits
BigToString(x) ==
    (IF x.neg THEN <<"-">> ELSE <<>>)
    \o NatToStr(x.ip)
    \o (IF x.f8 = 0 THEN <<>> ELSE <<".">> \o StripTrailingZeros(PadStr(x.f8, FracDigits)))
    \o <<"e", "+">> \o NatToStr(x.exp)

\* x.toFixed(8): NaN gives "NaN"; a magnitude >= 1e21 (and Infinity) gives
\* String(x); otherwise the magnitude is rounded to 8 fractional digits, a tie
\* to the larger magnitude, and "-" is prefixed when x < 0
toFixed8(x) ==
    CASE x.k = "nan" -> Str_NaN
      [] x.k = "inf" -> (IF x.neg THEN <<"-">> ELSE <<>>) \o Str_Infinity
      [] x.k = "big" -> BigToString(x)
      [] x.k = "fin" ->
            LET up == IF 2 * x.tail >= TailMod THEN 1 ELSE 0
                f  == x.f8 + up
                c  == IF f >= F8Mod THEN 1 ELSE 0
            IN  (IF IsNegative(x) THEN <<"-">> ELSE <<>>)
                \o NatToStr(x.ip + c) \o <<".">> \o PadStr(f - c * F8Mod, FracDigits)

RECURSIVE DropLeadingZeros(_)
DropLeadingZeros(s) ==
    IF Len(s) > 1 /\ s[1] = "0" THEN DropLeadingZeros(Tail(s)) ELSE s

\* parseFloat(s) for a string that is a whole decimal literal
\* [-]digits[.digits][e+digits], "NaN" or [-]Infinity; anything else is NaN
parseFloat(s) ==
    LET neg == Len(s) > 0 /\ s[1] = "-"
        \* the digits of the integer part, of the fraction and of the exponent
        Value(intS, fracS, e) ==
            LET \* the decimal point moved e places to the right
                moved == fracS \o Zeros(e - Len(fracS))
                intD  == DropLeadingZeros(intS \o SubSeq(moved, 1, e))
                fracD == SubSeq(moved, e + 1, Len(moved)) \o Zeros(FracDigits + TailDigits)
            IN  IF Len(intD) > ExpThreshold
                THEN Big(neg, DigitVal(intD[1]),
                         StrToNat(SubSeq(intD \o Zeros(FracDigits), 2, FracDigits + 1)),
                         Len(intD) - 1)
                ELSE Fin(neg, StrToNat(intD),
                         StrToNat(SubSeq(fracD, 1, FracDigits)),
                         StrToNat(SubSeq(fracD, FracDigits + 1, FracDigits + TailDigits)))
        Literal(body, ePos, intS, fracS, expS) ==
            LET wellFormed ==
                    /\ Len(intS) > 0
                    /\ \A i \in 1..Len(intS) : IsDigit(intS[i])
                    /\ \A i \in 1..Len(fracS) : IsDigit(fracS[i])
                    /\ ePos /= 0 => /\ Len(body) > ePos + 1
                                    /\ body[ePos + 1] = "+"
                                    /\ \A i \in 1..Len(expS) : IsDigit(expS[i])
            IN  IF body = Str_Infinity THEN Inf(neg)
                ELSE IF ~wellFormed THEN NaN
                ELSE Value(intS, fracS, StrToNat(expS))
        Mantissa(body, ePos, mant, dot) ==
            Literal(body, ePos,
                    IF dot = 0 THEN mant ELSE SubSeq(mant, 1, dot - 1),
                    IF dot = 0 THEN <<>> ELSE SubSeq(mant, dot + 1, Len(mant)),
                    IF ePos = 0 THEN <<>> ELSE SubSeq(body, ePos + 2, Len(body)))
        Exponent(body, ePos, mant) == Mantissa(body, ePos, mant, IndexOf(mant, "."))
        Unsigned(body, ePos) ==
            Exponent(body, ePos, IF ePos = 0 THEN body ELSE SubSeq(body, 1, ePos - 1))
        Signed(body) == Unsigned(body, IndexOf(body, "e"))
    IN  Signed(IF neg THEN Tail(s) ELSE s)

-----------------------------------------------------------------------------
\* Results of calls that may throw

\* a returned value, or the error thrown (and then no value)
Ok(v) == [ok |-> TRUE, val |-> v]
Fail(e) == [ok |-> FALSE, err |-> e]

ErrRounding == "causes rounding"
ErrInvalidOrderType == "Invalid order type"
ErrUnknownAsset == "Unknown asset"

-----------------------------------------------------------------------------
\* Numeric wire encoder

floatToWire(x) ==
    LET Checked(rounded, normalized) ==
            IF GeEps12(AbsDiff(parseFloat(rounded), x))
            THEN Fail(ErrRounding)
            ELSE IF normalized = <<"-", "0">> THEN Ok(<<"0">>) ELSE Ok(normalized)
        Normalized(rounded) == Checked(rounded, StripTrailingZeros(rounded))
    IN  Normalized(toFixed8(x))

\* x * Math.pow(10, power) for power <= 8: hi * 10^power + lo + rem / RemScale(power)
RemScale(power) == (10 ^ (FracDigits - power)) * TailMod

ScaleByPow10(x, power) ==
    CASE x.k = "fin" ->
            [k |-> "fin", neg |-> x.neg, hi |-> x.ip,
             lo |-> x.f8 \div (10 ^ (FracDigits - power)),
             rem |-> (x.f8 % (10 ^ (FracDigits - power))) * TailMod + x.tail,
             exp |-> 0]
      [] x.k = "big" ->
            [k |-> "big", neg |-> x.neg, hi |-> x.ip, lo |-> x.f8, rem |-> 0,
             exp |-> x.exp + power]
      [] x.k \in {"nan", "inf"} ->
            [k |-> x.k, neg |-> x.neg, hi |-> 0, lo |-> 0, rem |-> 0, exp |-> 0]

\* Math.round(w): the nearest integer, a tie towards +Infinity
MathRound(w, power) ==
    IF w.k /= "fin" THEN w
    ELSE LET up == IF w.neg THEN 2 * w.rem > RemScale(power)
                             ELSE 2 * w.rem >= RemScale(power)
             l  == w.lo + (IF up THEN 1 ELSE 0)
             c  == IF l >= 10 ^ power THEN 1 ELSE 0
         IN  [w EXCEPT !.hi = w.hi + c, !.lo = l - c * (10 ^ power), !.rem = 0]

\* Math.abs(Math.round(w) - w) >= 1e-3 (false when the difference is NaN)
RoundingAtLeastMilli(w, power) ==
    CASE w.k = "fin" ->
            LET r == MathRound(w, power)
                d == IF r.lo = w.lo /\ r.hi = w.hi THEN w.rem ELSE RemScale(power) - w.rem
            IN  d >= RemScale(power) \div 1000
      [] w.k = "big" -> FALSE
      [] w.k \in {"nan", "inf"} -> FALSE

floatToInt(x, power) ==
    LET withDecimals == ScaleByPow10(x, power)
    IN  IF RoundingAtLeastMilli(withDecimals, power)
        THEN Fail(ErrRounding)
        ELSE Ok(MathRound(withDecimals, power))

floatToIntForHashing(x) == floatToInt(x, HashingPower)

floatToUsdInt(x) == floatToInt(x, UsdPower)

-----------------------------------------------------------------------------
\* JavaScript values of the order mapper
\*
\* An optional property is a sequence: <<>> when it is undefined (absent),
\* <<v>> when it holds v. An object literal is a record with a field "keys",
\* the property names in insertion order, next to the properties themselves.

Undefined == <<>>
Some(v) == <<v>>
Get(o) == o[1]

\* the symbols used as inputs
Coins == {"ETH", "BTC"}

HasKey(obj, key) == \E i \in 1..Len(obj.keys) : obj.keys[i] = key

\* a trigger price is a number or a string holding one
NumVal(x) == [t |-> "number", num |-> x, str |-> <<>>]
StrVal(s) == [t |-> "string", num |-> NaN, str |-> s]

\* Number(v): a number is itself; a string is parsed as a whole, "" giving 0
ToNumber(v) ==
    IF v.t = "number" THEN v.num
    ELSE IF v.str = <<>> THEN Fin(FALSE, 0, 0, 0)
    ELSE parseFloat(v.str)

-----------------------------------------------------------------------------
\* Order wire mapper

\* the {trigger} object, or the encoder's error
TriggerWire(trigger, px) ==
    IF ~px.ok THEN px
    ELSE Ok([keys |-> <<"trigger">>,
             trigger |-> [keys |-> <<"isMarket", "triggerPx", "tpsl">>,
                          isMarket |-> trigger.isMarket,
                          triggerPx |-> px.val,
                          tpsl |-> trigger.tpsl]])

\* mutant: the trigger branch tested before the limit branch
orderTypeToWire_TriggerFirst(orderType) ==
    IF orderType.trigger /= Undefined
    THEN TriggerWire(Get(orderType.trigger),
                     floatToWire(ToNumber(Get(orderType.trigger).triggerPx)))
    ELSE IF orderType.limit /= Undefined
    THEN Ok([keys |-> <<"limit">>, limit |-> Get(orderType.limit)])
    ELSE Fail(ErrInvalidOrderType)

orderTypeToWire(orderType) ==
    IF orderType.limit /= Undefined
    THEN Ok([keys |-> <<"limit">>, limit |-> Get(orderType.limit)])
    ELSE IF orderType.trigger /= Undefined
    THEN TriggerWire(Get(orderType.trigger),
                     floatToWire(ToNumber(Get(orderType.trigger).triggerPx)))
    ELSE Fail(ErrInvalidOrderType)

\* the object literal of orderToWire, and the same object after orderWire.c = cloid
OrderWireObj(a, b, p, s, r, t) ==
    [keys |-> <<"a", "b", "p", "s", "r", "t">>,
     a |-> a, b |-> b, p |-> p, s |-> s, r |-> r, t |-> t]

WithCloid(w, cloid) ==
    [keys |-> Append(w.keys, "c"),
     a |-> w.a, b |-> w.b, p |-> w.p, s |-> w.s, r |-> w.r, t |-> w.t, c |-> cloid]

\* mutant: c is always written, as null when the order has no cloid
orderToWire_AlwaysCloid(order, asset) ==
    LET Wire(p, s, t) ==
            IF ~p.ok THEN p
            ELSE IF ~s.ok THEN s
            ELSE IF ~t.ok THEN t
            ELSE Ok(WithCloid(
                     OrderWireObj(asset, order.is_buy, p.val, s.val, order.reduce_only, t.val),
                     IF order.cloid /= Undefined THEN Get(order.cloid) ELSE "null"))
    IN  Wire(floatToWire(order.limit_px), floatToWire(order.sz),
             orderTypeToWire(order.order_type))

\* mutant: price and size written in each other's place
orderToWire_SwapPxSz(order, asset) ==
    LET WithC(orderWire) ==
            IF order.cloid /= Undefined
            THEN Ok(WithCloid(orderWire, Get(order.cloid))) ELSE Ok(orderWire)
        Wire(p, s, t) ==
            IF ~p.ok THEN p
            ELSE IF ~s.ok THEN s
            ELSE IF ~t.ok THEN t
            ELSE WithC(OrderWireObj(asset, order.is_buy, s.val, p.val,
                                    order.reduce_only, t.val))
    IN  Wire(floatToWire(order.limit_px), floatToWire(order.sz),
             orderTypeToWire(order.order_type))

\* the properties are evaluated in the order p, s, t: the first one that
\* throws ends the call with its error
orderToWire(order, asset) ==
    LET WithC(orderWire) ==
            IF order.cloid /= Undefined
            THEN Ok(WithCloid(orderWire, Get(order.cloid))) ELSE Ok(orderWire)
        Wire(p, s, t) ==
            IF ~p.ok THEN p
            ELSE IF ~s.ok THEN s
            ELSE IF ~t.ok THEN t
            ELSE WithC(OrderWireObj(asset, order.is_buy, p.val, s.val,
                                    order.reduce_only, t.val))
    IN  Wire(floatToWire(order.limit_px), floatToWire(order.sz),
             orderTypeToWire(order.order_type))

\* mutant: builder written as null when none is supplied
orderWiresToOrderAction_NullBuilder(orderWires, grouping, builder) ==
    [keys |-> <<"type", "orders", "grouping", "builder">>,
     type |-> "order", orders |-> orderWires, grouping |-> grouping,
     builder |-> IF builder /= Undefined THEN Get(builder) ELSE [b |-> "null", f |-> 0]]

orderWiresToOrderAction(orderWires, grouping, builder) ==
    IF builder /= Undefined
    THEN [keys |-> <<"type", "orders", "grouping", "builder">>,
          type |-> "order", orders |-> orderWires, grouping |-> grouping,
          builder |-> Get(builder)]
    ELSE [keys |-> <<"type", "orders", "grouping">>,
          type |-> "order", orders |-> orderWires, grouping |-> grouping]

-----------------------------------------------------------------------------
\* ExchangeAPI: asset resolution and the actions built from resolved indices

Null == "null"

\* the discriminators of types/constants; "cancel" is the documented one, the
\* others stand for themselves
ExchangeType ==
    [CANCEL |-> "cancel",
     CANCEL_BY_CLOID |-> "ExchangeType.CANCEL_BY_CLOID",
     MODIFY |-> "ExchangeType.MODIFY",
     UPDATE_LEVERAGE |-> "ExchangeType.UPDATE_LEVERAGE",
     UPDATE_ISOLATED_MARGIN |-> "ExchangeType.UPDATE_ISOLATED_MARGIN",
     BATCH_MODIFY |-> "ExchangeType.BATCH_MODIFY",
     USD_SEND |-> "ExchangeType.USD_SEND",
     SPOT_SEND |-> "ExchangeType.SPOT_SEND",
     WITHDRAW |-> "ExchangeType.WITHDRAW",
     USD_CLASS_TRANSFER |-> "ExchangeType.USD_CLASS_TRANSFER",
     SCHEDULE_CANCEL |-> "ExchangeType.SCHEDULE_CANCEL",
     VAULT_TRANSFER |-> "ExchangeType.VAULT_TRANSFER",
     SET_REFERRER |-> "ExchangeType.SET_REFERRER"]

ErrRequest == "request failed"
ErrNonExistentAssets == "non-existent assets"

UnknownAsset(symbol) == [ok |-> FALSE, err |-> ErrUnknownAsset, symbol |-> symbol]

\* mutant: a missing index is not checked and reads as 0
getAssetIndex_Unchecked(symbol, index) ==
    IF index = Undefined THEN Ok(0) ELSE Ok(Get(index))

\* getAssetIndex once symbolConversion.getAssetIndex(symbol) has returned index
getAssetIndex(symbol, index) ==
    IF index = Undefined THEN UnknownAsset(symbol) ELSE Ok(Get(index))

\* the methods that await one getAssetIndex per element of a list
BatchOps ==
    {"placeOrder", "getTxObjectPlaceOrder", "createOrderTypedData", "placeOrdersTpSl",
     "cancelOrder", "createCancelOrderTypedData"}
\* of these, the ones that look into an assetIndexCache before they resolve
CachingOps == {"placeOrder", "getTxObjectPlaceOrder", "createOrderTypedData"}
\* the ones that build a cancel action
CancelOps == {"cancelOrder", "createCancelOrderTypedData"}
\* the ones that return typed data for external signing once the action is built
TypedDataOps == {"createOrderTypedData", "createCancelOrderTypedData"}
\* the methods that await getAssetIndex once and build the action right after
SingleOps == {"cancelOrderByCloid", "modifyOrder", "updateLeverage", "updateIsolatedMargin"}
\* the methods that hand their action to signL1Action
L1SignOps ==
    ((BatchOps \cup SingleOps) \ (TypedDataOps \cup {"getTxObjectPlaceOrder"}))
    \cup {"batchModifyOrders", "scheduleCancel", "vaultTransfer", "setReferrer"}

\* { ...req, a: await this.getAssetIndex(req.coin) }
WithIndex(req, a) == [coin |-> req.coin, o |-> req.o, a |-> a]

\* mutant: the whole request with its index is written into the action
CancelEntry_Spread(c) ==
    [keys |-> <<"coin", "o", "a">>, coin |-> c.coin, o |-> c.o, a |-> c.a]

\* ({ a, o }) => ({ a, o })
CancelEntry(c) == [keys |-> <<"a", "o">>, a |-> c.a, o |-> c.o]

\* what a callback of the map computes once its index is known
EntryOf(op, req, a) ==
    IF op \in CancelOps THEN Ok(WithIndex(req, a)) ELSE orderToWire(req, a)

\* mutant: the wires are collected last first
Values_Reversed(opts) == [i \in 1..Len(opts) |-> Get(opts[Len(opts) + 1 - i])]

Values(opts) == [i \in 1..Len(opts) |-> Get(opts[i])]

\* the action object of each method, from the resolved indices and entries;
\* modifyOrder encodes its order here, which can fail
ActionOf(op, reqs, extra, idx, entries) ==
    CASE op \in CachingOps ->
            Ok(orderWiresToOrderAction(Values(entries), extra.grouping, extra.builder))
      [] op = "placeOrdersTpSl" ->
            Ok(orderWiresToOrderAction(Values(entries), "positionTpsl", extra.builder))
      [] op \in CancelOps ->
            Ok([keys |-> <<"type", "cancels">>,
                type |-> ExchangeType.CANCEL,
                cancels |-> [i \in 1..Len(entries) |-> CancelEntry(Get(entries[i]))]])
      [] op = "cancelOrderByCloid" ->
            Ok([keys |-> <<"type", "cancels">>,
                type |-> ExchangeType.CANCEL_BY_CLOID,
                cancels |-> <<[keys |-> <<"asset", "cloid">>,
                               asset |-> Get(idx[1]).val, cloid |-> reqs[1].cloid]>>])
      [] op = "modifyOrder" ->
            LET Modify(orderWire) ==
                    IF ~orderWire.ok THEN orderWire
                    ELSE Ok([keys |-> <<"type", "oid", "order">>,
                             type |-> ExchangeType.MODIFY,
                             oid |-> extra.oid, order |-> orderWire.val])
            IN  Modify(orderToWire(reqs[1], Get(idx[1]).val))
      [] op = "batchModifyOrders" ->
            LET Entry(i) ==
                    IF Get(idx[i]).val = 0 THEN Fail(ErrNonExistentAssets)
                    ELSE orderToWire(reqs[i].order, Get(idx[i]).val)
                First(bad) ==
                    IF bad /= {}
                    THEN Entry(CHOOSE i \in bad : \A j \in bad : i <= j)
                    ELSE Ok([keys |-> <<"type", "modifies">>,
                             type |-> ExchangeType.BATCH_MODIFY,
                             modifies |-> [i \in 1..Len(reqs) |->
                                [keys |-> <<"oid", "order">>,
                                 oid |-> reqs[i].oid, order |-> Entry(i).val]]])
            IN  First({i \in 1..Len(reqs) : ~Entry(i).ok})
      [] op = "updateLeverage" ->
            Ok([keys |-> <<"type", "asset", "isCross", "leverage">>,
                type |-> ExchangeType.UPDATE_LEVERAGE,
                asset |-> Get(idx[1]).val,
                isCross |-> (extra.leverageMode = "cross"),
                leverage |-> extra.leverage])
      [] op = "updateIsolatedMargin" ->
            Ok([keys |-> <<"type", "asset", "isBuy", "ntli">>,
                type |-> ExchangeType.UPDATE_ISOLATED_MARGIN,
                asset |-> Get(idx[1]).val,
                isBuy |-> extra.isBuy, ntli |-> extra.ntli])

\* the vault address signL1Action is given
SignedVault(op, extra) ==
    CASE op \in {"placeOrder", "getTxObjectPlaceOrder"} -> extra.vaultAddress
      [] op = "placeOrdersTpSl" ->
            IF extra.requestVault = Undefined \/ extra.requestVault = Some("")
            THEN Null ELSE Get(extra.requestVault)
      [] OTHER -> Null

PayloadOf(op, extra, action, nonce, signature) ==
    CASE op \in {"placeOrder", "getTxObjectPlaceOrder"} ->
            [keys |-> <<"action", "isFrontend", "nonce", "signature", "vaultAddress">>,
             action |-> action, isFrontend |-> TRUE, nonce |-> nonce,
             signature |-> signature, vaultAddress |-> extra.vaultAddress]
      [] op = "placeOrdersTpSl" ->
            [keys |-> <<"action", "nonce", "signature", "vaultAddress">>,
             action |-> action, nonce |-> nonce,
             signature |-> signature, vaultAddress |-> extra.vaultAddress]
      [] op \in {"usdTransfer", "spotTransfer", "initiateWithdrawal"} ->
            [keys |-> <<"action", "nonce", "signature">>,
             action |-> action, nonce |-> action.time, signature |-> signature]
      [] op = "transferBetweenSpotAndPerp" ->
            [keys |-> <<"action", "signature", "nonce">>,
             action |-> action, signature |-> signature, nonce |-> nonce]
      [] OTHER ->
            [keys |-> <<"action", "nonce", "signature">>,
             action |-> action, nonce |-> nonce, signature |-> signature]

-----------------------------------------------------------------------------
\* signing: the action digest

B(n) == [byte |-> n]

\* a non-negative integer below 2^64: four 16-bit words, most significant first
Zero64 == <<0, 0, 0, 0>>

\* the sample addresses and what ethers' getBytes makes of them
VaultA == "0x1111111111111111111111111111111111111111"
VaultB == "0x1111111111111111111111111111111111111112"
ShortHex == "0x11"
LongHex == "0x111111111111111111111111111111111111111111"
NotHex == "0xva"

AddressLength == 20
ErrInvalidBytesLike == "invalid BytesLike value"
ErrOffsetOutOfBounds == "RangeError: offset is out of bounds"

Repeat(b, n) == [i \in 1..n |-> b]

\* addressToBytes: getBytes(address), the bytes of a 0x-prefixed hex string
addressToBytes(address) ==
    CASE address = VaultA -> Ok(Repeat(B(17), AddressLength))
      [] address = VaultB -> Ok(Repeat(B(17), AddressLength - 1) \o <<B(18)>>)
      [] address = ShortHex -> Ok(<<B(17)>>)
      [] address = LongHex -> Ok(Repeat(B(17), AddressLength + 1))
      [] OTHER -> Fail(ErrInvalidBytesLike)

\* encode of @msgpack/msgpack on an object: the fixmap header, then key and
\* value of every property in insertion order
encode(action) ==
    <<B(128 + Len(action.keys))>>
    \o [i \in 1..(2 * Len(action.keys)) |->
            IF i % 2 = 1
            THEN [key |-> action.keys[(i + 1) \div 2]]
            ELSE [value |-> action[action.keys[i \div 2]]]]

\* mutant: the nonce is written least significant byte first
setBigUint64_LittleEndian(nonce) ==
    [i \in 1..8 |->
        IF i % 2 = 1 THEN B(nonce[5 - (i + 1) \div 2] % 256)
        ELSE B(nonce[5 - i \div 2] \div 256)]

\* mutant: only the low 32 bits of the nonce are written
setBigUint64_Low32(nonce) ==
    [i \in 1..8 |->
        IF i <= 4 THEN B(0)
        ELSE IF i % 2 = 1 THEN B(nonce[(i + 1) \div 2] \div 256)
        ELSE B(nonce[i \div 2] % 256)]

\* view.setBigUint64(offset, BigInt(nonce), false): the eight bytes written
setBigUint64(nonce) ==
    [i \in 1..8 |->
        IF i % 2 = 1 THEN B(nonce[(i + 1) \div 2] \div 256)
        ELSE B(nonce[i \div 2] % 256)]

keccak256(data) == [keccak256 |-> data]

\* actionHash: the buffer is allocated zeroed, then the serialized action, the
\* nonce, the flag and the address bytes are written at their offsets
actionHash(action, vaultAddress, nonce) ==
    LET Data(msgPackBytes, additionalBytesLength, nonceBytes, flag, address) ==
            [i \in 1..(Len(msgPackBytes) + additionalBytesLength) |->
                IF i <= Len(msgPackBytes) THEN msgPackBytes[i]
                ELSE IF i <= Len(msgPackBytes) + 8 THEN nonceBytes[i - Len(msgPackBytes)]
                ELSE IF i = Len(msgPackBytes) + 9 THEN B(flag)
                ELSE IF i - Len(msgPackBytes) - 9 <= Len(address)
                     THEN address[i - Len(msgPackBytes) - 9]
                ELSE B(0)]
        WithAddress(msgPackBytes, address) ==
            IF ~address.ok THEN address
            ELSE IF Len(address.val) > AddressLength THEN Fail(ErrOffsetOutOfBounds)
            ELSE Ok(keccak256(Data(msgPackBytes, 29, setBigUint64(nonce), 1, address.val)))
        Hash(msgPackBytes) ==
            IF vaultAddress = Null
            THEN Ok(keccak256(Data(msgPackBytes, 9, setBigUint64(nonce), 0, <<>>)))
            ELSE WithAddress(msgPackBytes, addressToBytes(vaultAddress))
    IN  Hash(encode(action))

-----------------------------------------------------------------------------
\* signing: typed data and the signer adapter

ZeroAddress == "0x0000000000000000000000000000000000000000"

phantomDomain ==
    [keys |-> <<"chainId", "name", "verifyingContract", "version">>,
     chainId |-> 1337, name |-> "Exchange",
     verifyingContract |-> ZeroAddress, version |-> "1"]

\* { name, type }
Field(name, type) == [keys |-> <<"name", "type">>, name |-> name, type |-> type]

agentTypes ==
    [keys |-> <<"Agent">>,
     Agent |-> <<Field("source", "string"), Field("connectionId", "bytes32")>>]

constructPhantomAgent(hash, isMainnet) ==
    [keys |-> <<"source", "connectionId">>,
     source |-> IF isMainnet THEN "a" ELSE "b", connectionId |-> hash]

\* a wallet is what the adapter asks of it: whether it is a non-null object
\* and, when it has a function signTypedData, that function's length
\* a wallet: whether it is a non-null object, the length of its signTypedData
\* when that is a function, and what that function does when called
WalletOf(isObject, signTypedData, does) ==
    [isObject |-> isObject, signTypedData |-> signTypedData, does |-> does]
EthersWallet == WalletOf(TRUE, Some(3), "signs")
UndefinedWallet == WalletOf(FALSE, Undefined, "signs")

isAbstractWalletClient(client) ==
    /\ client.isObject
    /\ client.signTypedData /= Undefined
    /\ Get(client.signTypedData) = 1

isAbstractSigner(client) ==
    /\ client.isObject
    /\ client.signTypedData /= Undefined
    /\ Get(client.signTypedData) = 3

ErrUnsupportedWallet == "Unsupported wallet for signing typed data"
ErrInvalidSignature == "invalid raw signature length"

\* the hex string wallet.signTypedData(...args) resolves to
SignatureHex(args) == [signatureOver |-> args]
\* a string that is not a signature
NotASignature == [notASignature |-> "0x12"]

\* splitSig: the r, s and v of ethers.Signature.from(sig), which throws on a
\* string that is not a signature
splitSig(sig) ==
    IF sig = NotASignature THEN Fail(ErrInvalidSignature)
    ELSE Ok([keys |-> <<"r", "s", "v">>,
             r |-> <<"r", sig>>, s |-> <<"s", sig>>, v |-> <<"v", sig>>])

ErrSignerRejected == "user rejected the request"

\* await wallet.signTypedData(...args): a signature over the arguments, a
\* string that is none, or a rejection
wallet_signTypedData(wallet, args) ==
    CASE wallet.does = "signs" -> Ok(SignatureHex(args))
      [] wallet.does = "returnsOther" -> Ok(NotASignature)
      [] OTHER -> Fail(ErrSignerRejected)

\* the outcome of a signing function and the calls it made to the wallet
Signed(result, calls) ==
    IF result.ok
    THEN [ok |-> TRUE, val |-> result.val, calls |-> calls]
    ELSE [ok |-> FALSE, err |-> result.err, calls |-> calls]

\* mutant: every wallet object is called with the three arguments
signInner_AlwaysThree(wallet, data) ==
    LET Split(signature, args) ==
            Signed(IF signature.ok THEN splitSig(signature.val) ELSE signature, <<args>>)
        Call(args) == Split(wallet_signTypedData(wallet, args), args)
    IN  IF wallet.isObject /\ wallet.signTypedData /= Undefined
        THEN Call(<<data.domain, data.types, data.message>>)
        ELSE Signed(Fail(ErrUnsupportedWallet), <<>>)

\* mutant: an unsupported wallet yields an empty signature instead of an error
signInner_Fallback(wallet, data) ==
    LET Split(signature, args) ==
            Signed(IF signature.ok THEN splitSig(signature.val) ELSE signature, <<args>>)
        Call(args) == Split(wallet_signTypedData(wallet, args), args)
    IN  IF isAbstractWalletClient(wallet)
        THEN Call(<<[keys |-> <<"domain", "types", "primaryType", "message">>,
                     domain |-> data.domain, types |-> data.types,
                     primaryType |-> data.primaryType, message |-> data.message]>>)
        ELSE IF isAbstractSigner(wallet)
        THEN Call(<<data.domain, data.types, data.message>>)
        ELSE Signed(splitSig(SignatureHex(<<>>)), <<>>)

signInner(wallet, data) ==
    LET Split(signature, args) ==
            Signed(IF signature.ok THEN splitSig(signature.val) ELSE signature, <<args>>)
        Call(args) == Split(wallet_signTypedData(wallet, args), args)
    IN  IF isAbstractWalletClient(wallet)
        THEN Call(<<[keys |-> <<"domain", "types", "primaryType", "message">>,
                     domain |-> data.domain, types |-> data.types,
                     primaryType |-> data.primaryType, message |-> data.message]>>)
        ELSE IF isAbstractSigner(wallet)
        THEN Call(<<data.domain, data.types, data.message>>)
        ELSE Signed(Fail(ErrUnsupportedWallet), <<>>)

\* a rejection before the wallet is reached
Thrown(result) == Signed(result, <<>>)

\* mutant: the network marker is always that of mainnet
signL1Action_AlwaysMainnet(wallet, action, activePool, nonce, isMainnet) ==
    LET Sign(hash) ==
            IF ~hash.ok THEN Thrown(hash)
            ELSE signInner(wallet,
                    [keys |-> <<"domain", "types", "primaryType", "message">>,
                     domain |-> phantomDomain, types |-> agentTypes,
                     primaryType |-> "Agent",
                     message |-> constructPhantomAgent(hash.val, TRUE)])
    IN  Sign(actionHash(action, activePool, nonce))

signL1Action(wallet, action, activePool, nonce, isMainnet) ==
    LET Sign(hash) ==
            IF ~hash.ok THEN Thrown(hash)
            ELSE signInner(wallet,
                    [keys |-> <<"domain", "types", "primaryType", "message">>,
                     domain |-> phantomDomain, types |-> agentTypes,
                     primaryType |-> "Agent",
                     message |-> constructPhantomAgent(hash.val, isMainnet)])
    IN  Sign(actionHash(action, activePool, nonce))

\* getTxObject of mpcSigning: the typed data, unsigned
getTxObject(action, activePool, nonce, isMainnet) ==
    LET Data(hash) ==
            IF ~hash.ok THEN hash
            ELSE Ok([keys |-> <<"domain", "types", "primaryType", "message">>,
                     domain |-> phantomDomain, types |-> agentTypes,
                     primaryType |-> "Agent",
                     message |-> constructPhantomAgent(hash.val, isMainnet)])
    IN  Data(actionHash(action, activePool, nonce))

createL1ActionTypedData(action, vaultAddress, nonce, isMainnet) ==
    LET Data(hash) ==
            IF ~hash.ok THEN hash
            ELSE Ok([keys |-> <<"domain", "types", "primaryType", "message", "action",
                                "nonce", "vaultAddress", "hash">>,
                     domain |-> phantomDomain, types |-> agentTypes,
                     primaryType |-> "Agent",
                     message |-> constructPhantomAgent(hash.val, isMainnet),
                     action |-> action, nonce |-> nonce, vaultAddress |-> vaultAddress,
                     hash |-> hash.val])
    IN  Data(actionHash(action, vaultAddress, nonce))
-----------------------------------------------------------------------------
\* ExchangeAPI: typed data returned for external signing

\* the placeholder: a 32-byte hex string that is no digest
ZeroConnectionId ==
    [hex |-> "0x0000000000000000000000000000000000000000000000000000000000000000"]

\* what createOrderTypedData and createCancelOrderTypedData return
PlaceholderTypedData(isMainnet, action, nonce, vaultAddress) ==
    [keys |-> <<"domain", "types", "primaryType", "message", "action", "nonce",
                "vaultAddress">>,
     domain |-> phantomDomain, types |-> agentTypes, primaryType |-> "Agent",
     message |-> [keys |-> <<"source", "connectionId">>,
                  source |-> IF isMainnet THEN "a" ELSE "b",
                  connectionId |-> ZeroConnectionId],
     action |-> action, nonce |-> nonce, vaultAddress |-> vaultAddress]

\* typeof signature === 'string': the hex strings are the values of
\* SignatureHex and NotASignature, a split signature is an object
IsString(signature) == "keys" \notin DOMAIN signature

\* mutant: a string signature is submitted as it came
submitSignedAction_NoSplit(action, nonce, signature, vaultAddress) ==
    Ok([keys |-> <<"action", "nonce", "signature", "vaultAddress">>,
        action |-> action, nonce |-> nonce, signature |-> signature,
        vaultAddress |-> vaultAddress])

\* submitSignedAction up to its request: the payload handed to makeRequest, or
\* what splitSig throws
submitSignedAction(action, nonce, signature, vaultAddress) ==
    LET Payload(formattedSignature) ==
            IF ~formattedSignature.ok THEN formattedSignature
            ELSE Ok([keys |-> <<"action", "nonce", "signature", "vaultAddress">>,
                     action |-> action, nonce |-> nonce,
                     signature |-> formattedSignature.val,
                     vaultAddress |-> vaultAddress])
    IN  Payload(IF IsString(signature) THEN splitSig(signature) ELSE Ok(signature))
-----------------------------------------------------------------------------
\* signing: user-signed actions

HexChars ==
    <<"0", "1", "2", "3", "4", "5", "6", "7", "8", "9", "a", "b", "c", "d", "e", "f">>
IsHexDigit(c) == \E i \in 1..16 : HexChars[i] = c
HexVal(c) == (CHOOSE i \in 1..16 : HexChars[i] = c) - 1

\* the value of the longest prefix of hex digits (lower case) of from..Len(s)
RECURSIVE HexPrefix(_, _, _)
HexPrefix(s, from, acc) ==
    IF from > Len(s) \/ ~IsHexDigit(s[from]) THEN acc
    ELSE HexPrefix(s, from + 1, acc * 16 + HexVal(s[from]))

\* parseInt(hex, 16): an optional 0x, then hex digits; NaN without a digit
hexToNumber(hex) ==
    LET From(start) ==
            IF start > Len(hex) \/ ~IsHexDigit(hex[start]) THEN NaN
            ELSE HexPrefix(hex, start, 0)
    IN  IF Len(hex) >= 2 /\ hex[1] = "0" /\ hex[2] = "x" THEN From(3) ELSE From(1)

\* obj[key] = value on an object
SetProp(obj, key, value) ==
    IF \E i \in 1..Len(obj.keys) : obj.keys[i] = key
    THEN [obj EXCEPT ![key] = value]
    ELSE [k \in DOMAIN obj \cup {key} |->
            IF k = key THEN value
            ELSE IF k = "keys" THEN Append(obj.keys, key) ELSE obj[k]]

\* action.hyperliquidChain = isMainnet ? 'Mainnet' : 'Testnet', which the
\* caller's action object sees
SetHyperliquidChain(action, isMainnet) ==
    SetProp(action, "hyperliquidChain", IF isMainnet THEN "Mainnet" ELSE "Testnet")

\* { [primaryType]: payloadTypes }
TypesOf(primaryType, payloadTypes) ==
    [k \in {"keys", primaryType} |-> IF k = "keys" THEN <<primaryType>> ELSE payloadTypes]

\* the domain object of signUserSignedAction and createAgentTypedData
UserSignedDomain(signatureChainId) ==
    [keys |-> <<"name", "version", "chainId", "verifyingContract">>,
     name |-> "HyperliquidSignTransaction", version |-> "1",
     chainId |-> hexToNumber(signatureChainId), verifyingContract |-> ZeroAddress]

\* mutant: the phantom domain is used for a user-signed action
signUserSignedAction_PhantomDomain(wallet, action, payloadTypes, primaryType, isMainnet) ==
    LET Sign(stamped) ==
            signInner(wallet,
                [keys |-> <<"domain", "types", "primaryType", "message">>,
                 domain |-> phantomDomain,
                 types |-> TypesOf(primaryType, payloadTypes),
                 primaryType |-> primaryType, message |-> stamped])
    IN  Sign(SetHyperliquidChain(action, isMainnet))

signUserSignedAction(wallet, action, payloadTypes, primaryType, isMainnet) ==
    LET Sign(stamped) ==
            signInner(wallet,
                [keys |-> <<"domain", "types", "primaryType", "message">>,
                 domain |-> UserSignedDomain(stamped.signatureChainId),
                 types |-> TypesOf(primaryType, payloadTypes),
                 primaryType |-> primaryType, message |-> stamped])
    IN  Sign(SetHyperliquidChain(action, isMainnet))

\* mutant: the schema of a usd transfer leaves the time out
signUsdTransferAction_NoTime(wallet, action, isMainnet) ==
    signUserSignedAction(wallet, action,
        <<Field("hyperliquidChain", "string"), Field("destination", "string"),
          Field("amount", "string")>>,
        "HyperliquidTransaction:UsdSend", isMainnet)

signUsdTransferAction(wallet, action, isMainnet) ==
    signUserSignedAction(wallet, action,
        <<Field("hyperliquidChain", "string"), Field("destination", "string"),
          Field("amount", "string"), Field("time", "uint64")>>,
        "HyperliquidTransaction:UsdSend", isMainnet)

signWithdrawFromBridgeAction(wallet, action, isMainnet) ==
    signUserSignedAction(wallet, action,
        <<Field("hyperliquidChain", "string"), Field("destination", "string"),
          Field("amount", "string"), Field("time", "uint64")>>,
        "HyperliquidTransaction:Withdraw", isMainnet)

signAgent(wallet, action, isMainnet) ==
    signUserSignedAction(wallet, action,
        <<Field("hyperliquidChain", "string"), Field("agentAddress", "address"),
          Field("agentName", "string"), Field("nonce", "uint64")>>,
        "HyperliquidTransaction:ApproveAgent", isMainnet)

\* signUserSignedAction of mpcSigning: the typed data, unsigned
mpc_signUserSignedAction(action, payloadTypes, primaryType, isMainnet) ==
    LET Data(stamped) ==
            [keys |-> <<"domain", "types", "primaryType", "message">>,
             domain |-> UserSignedDomain(stamped.signatureChainId),
             types |-> TypesOf(primaryType, payloadTypes),
             primaryType |-> primaryType, message |-> stamped]
    IN  Data(SetHyperliquidChain(action, isMainnet))

\* signUsdTransferAction, signWithdrawFromBridgeAction and signAgent of
\* mpcSigning
mpc_signByKind(kind, action, isMainnet) ==
    CASE kind = "signUsdTransferAction" ->
            mpc_signUserSignedAction(action,
                <<Field("hyperliquidChain", "string"), Field("destination", "string"),
                  Field("amount", "string"), Field("time", "uint64")>>,
                "HyperliquidTransaction:UsdSend", isMainnet)
      [] kind = "signWithdrawFromBridgeAction" ->
            mpc_signUserSignedAction(action,
                <<Field("hyperliquidChain", "string"), Field("destination", "string"),
                  Field("amount", "string"), Field("time", "uint64")>>,
                "HyperliquidTransaction:Withdraw", isMainnet)
      [] kind = "signAgent" ->
            mpc_signUserSignedAction(action,
                <<Field("hyperliquidChain", "string"), Field("agentAddress", "address"),
                  Field("agentName", "string"), Field("nonce", "uint64")>>,
                "HyperliquidTransaction:ApproveAgent", isMainnet)

\* the same three of signing.ts, which sign
signByKind(kind, wallet, action, isMainnet) ==
    CASE kind = "signUsdTransferAction" -> signUsdTransferAction(wallet, action, isMainnet)
      [] kind = "signWithdrawFromBridgeAction" ->
            signWithdrawFromBridgeAction(wallet, action, isMainnet)
      [] kind = "signAgent" -> signAgent(wallet, action, isMainnet)

\* mutant: the typed data is built for the action as it came, unstamped
createAgentTypedData_Unstamped(action, isMainnet) ==
    [keys |-> <<"domain", "types", "primaryType", "message", "action">>,
     domain |-> UserSignedDomain(action.signatureChainId),
     types |-> TypesOf("HyperliquidTransaction:ApproveAgent",
                <<Field("hyperliquidChain", "string"),
                  Field("agentAddress", "address"),
                  Field("agentName", "string"), Field("nonce", "uint64")>>),
     primaryType |-> "HyperliquidTransaction:ApproveAgent",
     message |-> action, action |-> action]

createAgentTypedData(action, isMainnet) ==
    LET Data(stamped) ==
            [keys |-> <<"domain", "types", "primaryType", "message", "action">>,
             domain |-> UserSignedDomain(stamped.signatureChainId),
             types |-> TypesOf("HyperliquidTransaction:ApproveAgent",
                        <<Field("hyperliquidChain", "string"),
                          Field("agentAddress", "address"),
                          Field("agentName", "string"), Field("nonce", "uint64")>>),
             primaryType |-> "HyperliquidTransaction:ApproveAgent",
             message |-> stamped, action |-> stamped]
    IN  Data(SetHyperliquidChain(action, isMainnet))

-----------------------------------------------------------------------------
\* ExchangeAPI: the methods that build their action from their arguments only

UserSignOps ==
    {"usdTransfer", "spotTransfer", "initiateWithdrawal", "transferBetweenSpotAndPerp"}

HyperliquidChain(isMainnet) == IF isMainnet THEN "Mainnet" ELSE "Testnet"
SignatureChainId(isMainnet) ==
    IF isMainnet THEN <<"0", "x", "a", "4", "b", "1">>
    ELSE <<"0", "x", "6", "6", "e", "e", "e">>

\* the action object literal of each method; now is Date.now()
DirectAction(op, args, isMainnet, now) ==
    CASE op \in {"usdTransfer", "initiateWithdrawal", "createTransferTypedData"} ->
            [keys |-> <<"type", "hyperliquidChain", "signatureChainId", "destination",
                        "amount", "time">>,
             type |-> IF op = "initiateWithdrawal"
                      THEN ExchangeType.WITHDRAW ELSE ExchangeType.USD_SEND,
             hyperliquidChain |-> HyperliquidChain(isMainnet),
             signatureChainId |-> SignatureChainId(isMainnet),
             destination |-> args.destination,
             amount |-> NatToStr(args.amount),
             time |-> now]
      [] op = "spotTransfer" ->
            [keys |-> <<"type", "hyperliquidChain", "signatureChainId", "destination",
                        "token", "amount", "time">>,
             type |-> ExchangeType.SPOT_SEND,
             hyperliquidChain |-> HyperliquidChain(isMainnet),
             signatureChainId |-> SignatureChainId(isMainnet),
             destination |-> args.destination,
             token |-> args.token,
             amount |-> args.amount,
             time |-> now]
      [] op = "transferBetweenSpotAndPerp" ->
            [keys |-> <<"amount", "hyperliquidChain", "nonce", "signatureChainId",
                        "toPerp", "type">>,
             amount |-> NatToStr(args.usdc),
             hyperliquidChain |-> HyperliquidChain(isMainnet),
             nonce |-> now,
             signatureChainId |-> SignatureChainId(isMainnet),
             toPerp |-> args.toPerp,
             type |-> ExchangeType.USD_CLASS_TRANSFER]
      [] op = "scheduleCancel" ->
            [keys |-> <<"type", "time">>,
             type |-> ExchangeType.SCHEDULE_CANCEL, time |-> args.time]
      [] op = "vaultTransfer" ->
            [keys |-> <<"type", "vaultAddress", "isDeposit", "usd">>,
             type |-> ExchangeType.VAULT_TRANSFER, vaultAddress |-> args.vaultAddress,
             isDeposit |-> args.isDeposit, usd |-> args.usd]
      [] op = "setReferrer" ->
            [keys |-> <<"type", "code">>,
             type |-> ExchangeType.SET_REFERRER, code |-> args.code]
      [] op = "createAgentApprovalTypedData" ->
            [keys |-> <<"type", "agentAddress", "agentName", "signatureChainId", "nonce">>,
             type |-> ExchangeType.SET_REFERRER,
             agentAddress |-> args.agentAddress, agentName |-> args.agentName,
             signatureChainId |-> SignatureChainId(isMainnet),
             nonce |-> now]

\* what createTransferTypedData returns
TransferTypedData(action) ==
    [keys |-> <<"domain", "types", "primaryType", "message", "action">>,
     domain |-> UserSignedDomain(action.signatureChainId),
     types |-> TypesOf("HyperliquidTransaction:UsdSend",
                <<Field("hyperliquidChain", "string"), Field("destination", "string"),
                  Field("amount", "string"), Field("time", "uint64")>>),
     primaryType |-> "HyperliquidTransaction:UsdSend",
     message |-> action, action |-> action]

\* the signing function each method awaits, applied to what the method hands it
SignOf(op, wallet, s, isMainnet) ==
    CASE op = "usdTransfer" -> signUsdTransferAction(wallet, s.action, isMainnet)
      [] op = "initiateWithdrawal" ->
            signWithdrawFromBridgeAction(wallet, s.action, isMainnet)
      [] op = "spotTransfer" ->
            signUserSignedAction(wallet, s.action,
                <<Field("hyperliquidChain", "string"), Field("destination", "string"),
                  Field("token", "string"), Field("amount", "string"),
                  Field("time", "uint64")>>,
                "HyperliquidTransaction:SpotSend", isMainnet)
      [] op = "transferBetweenSpotAndPerp" ->
            signUserSignedAction(wallet, s.action,
                <<Field("hyperliquidChain", "string"), Field("amount", "string"),
                  Field("toPerp", "bool"), Field("nonce", "uint64")>>,
                "HyperliquidTransaction:UsdClassTransfer", isMainnet)
      [] OTHER -> signL1Action(wallet, s.action, s.activePool, s.nonce, isMainnet)
-----------------------------------------------------------------------------
\* src/rest/custom.ts, src/rest/mpcCustom.ts and the custom.ts of
\* unnamed/part_001: cancelAllOrders and marketClose

\* the three classes
CustomTs == "custom.ts"
CustomPart001 == "unnamed/part_001"
MpcCustomTs == "mpcCustom.ts"

Error(message, detail) == [message |-> message, detail |-> detail]
ErrNullWallet == Error("TypeError: Cannot read properties of null", "address")
ErrNoOrdersToCancel == Error("No orders to cancel", "")
ErrNoPosition(convertedSymbol) == Error("No position found for", convertedSymbol)
ErrInfoRequest == Error("info request failed", "")
ErrExchange == Error("exchange call failed", "")

\* what a custom operation did: how it settled and what it asked of the ExchangeAPI
Ran(out, calls) == [out |-> out, calls |-> calls]

\* a string in a condition: null and '' are falsy
TruthyString(s) == s /= Null /\ s /= ""
\* an optional string argument in a condition: undefined and '' are falsy
TruthyArg(arg) == arg /= Undefined /\ Get(arg) /= ""
\* an optional number argument in a condition: undefined and 0 are falsy
TruthyNumber(arg) == arg /= Undefined /\ Get(arg) /= 0

\* const address = this.walletAddress || this.wallet.address, where the
\* constructor set this.wallet = null; part_001 falls back to ''; the MPC class
\* passes this.walletAddress as it is
AddressOf(impl, walletAddress) ==
    CASE impl = CustomTs ->
            IF TruthyString(walletAddress) THEN Ok(walletAddress) ELSE Fail(ErrNullWallet)
      [] impl = CustomPart001 ->
            Ok(IF TruthyString(walletAddress) THEN walletAddress ELSE "")
      [] OTHER -> Ok(walletAddress)

\* this.exchange.cancelOrder(request) / this.exchange.placeOrder(request)
ExchangeCall(method, request, exchangeOk) ==
    Ran(IF exchangeOk THEN Ok([response |-> method]) ELSE Fail(ErrExchange),
        <<[method |-> method, request |-> request]>>)

\* for (let order of openOrders) order.coin = await convertSymbol(order.coin)
ConvertOrders(openOrders, convert) ==
    [i \in 1..Len(openOrders) |-> [openOrders[i] EXCEPT !.coin = convert[@]]]

FilterBySymbol(openOrders, symbol) ==
    LET Matches(order) == order.coin = symbol
    IN SelectSeq(openOrders, Matches)

OrdersToCancel(openOrders, symbol) ==
    IF TruthyArg(symbol) THEN FilterBySymbol(openOrders, Get(symbol)) ELSE openOrders

CancelRequestsOf(ordersToCancel) ==
    [i \in 1..Len(ordersToCancel) |->
        [coin |-> ordersToCancel[i].coin, o |-> ordersToCancel[i].oid]]

CancelOrders(ordersToCancel, exchangeOk) ==
    IF Len(ordersToCancel) = 0
    THEN Ran(Fail(ErrNoOrdersToCancel), <<>>)
    ELSE ExchangeCall("cancelOrder", CancelRequestsOf(ordersToCancel), exchangeOk)

cancelAllOrders(impl, walletAddress, convert, info, symbol) ==
    IF ~AddressOf(impl, walletAddress).ok
    THEN Ran(AddressOf(impl, walletAddress), <<>>)
    ELSE IF ~info.ok
    THEN Ran(Fail(ErrInfoRequest), <<>>)
    ELSE CancelOrders(OrdersToCancel(ConvertOrders(info.openOrders, convert), symbol),
                      info.exchangeOk)

DEFAULT_SLIPPAGE == "0.05"

\* getSlippagePrice(symbol, isBuy, slippage, px): the price moved by the slippage
\* against the order, kept as the application it is
getSlippagePrice(symbol, isBuy, slippage, px) ==
    [getSlippagePrice |-> <<symbol, isBuy, slippage, px>>]

Abs(n) == IF n < 0 THEN 0 - n ELSE n

\* the first position the loop does not skip, 0 when it skips them all
FirstPosition(assetPositions, convertedSymbol) ==
    LET Matching == {i \in 1..Len(assetPositions) :
                        convertedSymbol = assetPositions[i].position.coin}
    IN IF Matching = {} THEN 0
       ELSE CHOOSE i \in Matching : \A j \in Matching : i <= j

\* the body of the loop for the position that matches
ClosePosition(item, convertedSymbol, size, px, slippage, cloid, exchangeOk) ==
    ExchangeCall("placeOrder",
        [coin |-> convertedSymbol,
         is_buy |-> item.szi < 0,
         sz |-> IF TruthyNumber(size) THEN Get(size) ELSE Abs(item.szi),
         limit_px |-> getSlippagePrice(convertedSymbol, item.szi < 0, slippage, px),
         order_type |-> [limit |-> [tif |-> "Ioc"]],
         reduce_only |-> TRUE,
         cloid |-> IF TruthyArg(cloid) THEN cloid ELSE Undefined],
        exchangeOk)

CloseFirst(assetPositions, convertedSymbol, size, px, slippage, cloid, exchangeOk) ==
    IF FirstPosition(assetPositions, convertedSymbol) = 0
    THEN Ran(Fail(ErrNoPosition(convertedSymbol)), <<>>)
    ELSE ClosePosition(assetPositions[FirstPosition(assetPositions, convertedSymbol)].position,
                       convertedSymbol, size, px, slippage, cloid, exchangeOk)

marketClose(impl, walletAddress, convert, info, symbol, size, px, slippage, cloid) ==
    IF ~AddressOf(impl, walletAddress).ok
    THEN Ran(AddressOf(impl, walletAddress), <<>>)
    ELSE IF ~info.ok
    THEN Ran(Fail(ErrInfoRequest), <<>>)
    ELSE CloseFirst(info.assetPositions, convert[symbol], size, px, slippage, cloid,
                    info.exchangeOk)
-----------------------------------------------------------------------------
\* Values of the variables a specification does not use

NoResult == Fail("not called")

NoOrder ==
    [coin |-> "ETH", is_buy |-> FALSE, sz |-> Fin(FALSE, 0, 0, 0),
     limit_px |-> Fin(FALSE, 0, 0, 0),
     order_type |-> [limit |-> Undefined, trigger |-> Undefined],
     reduce_only |-> FALSE, cloid |-> Undefined]

OwIdle ==
    /\ ow_order = NoOrder
    /\ ow_asset = 0
    /\ ow_fn = "none"
    /\ ow_type = NoResult
    /\ ow_wire = NoResult

NumIdle ==
    /\ num_x = NaN
    /\ num_fn = "none"
    /\ num_out = NoResult
    /\ int_out = NoResult

OaIdle ==
    /\ oa_orders = <<>>
    /\ oa_grouping = "na"
    /\ oa_builder = Undefined
    /\ oa_action = NoResult

NoCall == [keys |-> <<>>]

ExIdle ==
    /\ api = [wallet |-> EthersWallet, IS_MAINNET |-> TRUE]
    /\ assetMap = [coin \in Coins |-> Undefined]
    /\ clock = Zero64
    /\ ex_op = "none"
    /\ ex_reqs = <<>>
    /\ ex_extra = NoCall
    /\ ex_pc = "idle"
    /\ ex_status = <<>>
    /\ ex_idx = <<>>
    /\ ex_wires = <<>>
    /\ ex_cache = [coin \in Coins |-> Undefined]
    /\ ex_calls = [coin \in Coins |-> 0]
    /\ ex_action = Undefined
    /\ ex_signed = Undefined
    /\ ex_sig = Undefined
    /\ ex_payload = Undefined
    /\ ex_out = NoResult


SgIdle ==
    /\ sg_fn = "none"
    /\ sg_action = NoCall
    /\ sg_vault = Null
    /\ sg_nonce = Zero64
    /\ sg_mainnet = TRUE
    /\ sg_wallet = NoCall
    /\ sg_calls = <<>>
    /\ sg_out = NoResult

CuIdle ==
    /\ cu_impl = MpcCustomTs
    /\ cu_walletAddress = VaultA
    /\ cu_convert = [symbol \in {} |-> symbol]
    /\ cu_fn = "none"
    /\ cu_args = NoCall
    /\ cu_info = NoCall
    /\ cu_calls = <<>>
    /\ cu_out = Fail(Error("not called", ""))

\* a call that has not begun
NoOther ==
    [op |-> "none", reqs |-> <<>>, extra |-> NoCall, pc |-> "idle", status |-> <<>>,
     idx |-> <<>>, wires |-> <<>>, cache |-> [coin \in Coins |-> Undefined],
     calls |-> [coin \in Coins |-> 0], action |-> Undefined, signed |-> Undefined,
     sig |-> Undefined, payload |-> Undefined, out |-> NoResult]

CcIdle ==
    /\ cc_id = 1
    /\ cc_other = NoOther
-----------------------------------------------------------------------------
\* The signing functions applied to one set of arguments

NoopAction == [keys |-> <<"type">>, type |-> "noop"]
SampleCancelAction ==
    [keys |-> <<"type", "cancels">>, type |-> ExchangeType.CANCEL,
     cancels |-> <<CancelEntry([coin |-> "ETH", o |-> 123, a |-> 5])>>]
HashActions == {NoCall, NoopAction, SampleCancelAction}

\* actions that carry a signatureChainId: a usd transfer built on mainnet and
\* an agent approval built on testnet
SampleUsdSend ==
    DirectAction("usdTransfer", [destination |-> VaultB, amount |-> 1], TRUE,
                 <<0, 0, 1, 0>>)
SampleApproval ==
    DirectAction("createAgentApprovalTypedData",
                 [agentAddress |-> VaultA, agentName |-> "agent"], FALSE, <<0, 0, 1, 0>>)
UserActions == {SampleUsdSend, SampleApproval}
UserSignKinds == {"signUsdTransferAction", "signWithdrawFromBridgeAction", "signAgent"}

HashVaults == {Null, VaultA, VaultB, ShortHex, LongHex, NotHex}

\* 0, 1, 256, 65536, a millisecond timestamp of 2024, 2^48 and 2^64 - 1
HashNonces ==
    {Zero64, <<0, 0, 0, 1>>, <<0, 0, 0, 256>>, <<0, 0, 1, 0>>, <<0, 397, 50066, 4660>>,
     <<1, 0, 0, 0>>, <<65535, 65535, 65535, 65535>>}

\* undefined or null, an object without a signTypedData function, and
\* functions of 0 to 4 parameters, each signing, returning another string or
\* rejecting
Wallets ==
    {WalletOf(isObject, signTypedData, does) :
        isObject \in BOOLEAN,
        signTypedData \in {Undefined} \cup {Some(n) : n \in 0..4},
        does \in {"signs", "returnsOther", "rejects"}}

InitSigning ==
    /\ sg_fn = "none"
    /\ sg_action \in HashActions \cup UserActions
    /\ sg_vault \in HashVaults
    /\ sg_nonce \in HashNonces
    /\ sg_mainnet \in BOOLEAN
    /\ sg_wallet \in Wallets
    /\ sg_calls = <<>>
    /\ sg_out = NoResult
    /\ CuIdle
    /\ CcIdle
    /\ NumIdle
    /\ OwIdle
    /\ OaIdle
    /\ ExIdle

CallActionHash ==
    /\ sg_fn = "none"
    /\ sg_fn' = "actionHash"
    /\ sg_out' = actionHash(sg_action, sg_vault, sg_nonce)
    /\ UNCHANGED <<sg_action, sg_vault, sg_nonce, sg_mainnet, sg_wallet, sg_calls,
                   notSgVars>>

\* signInner(wallet, data) on the typed data of the L1 action at hand
CallSignInner ==
    /\ sg_fn = "none"
    /\ getTxObject(sg_action, sg_vault, sg_nonce, sg_mainnet).ok
    /\ \E signed \in {signInner(sg_wallet,
                        getTxObject(sg_action, sg_vault, sg_nonce, sg_mainnet).val)} :
        /\ sg_fn' = "signInner"
        /\ sg_calls' = signed.calls
        /\ sg_out' = IF signed.ok THEN Ok(signed.val) ELSE Fail(signed.err)
    /\ UNCHANGED <<sg_action, sg_vault, sg_nonce, sg_mainnet, sg_wallet, notSgVars>>

MpcName(kind) ==
    CASE kind = "signUsdTransferAction" -> "mpcSigning.signUsdTransferAction"
      [] kind = "signWithdrawFromBridgeAction" -> "mpcSigning.signWithdrawFromBridgeAction"
      [] kind = "signAgent" -> "mpcSigning.signAgent"

\* a call that returns result and has called the wallet with calls
SigningCall(fn, result, calls) ==
    /\ sg_fn = "none"
    /\ sg_fn' = fn
    /\ sg_calls' = calls
    /\ sg_out' = result
    /\ UNCHANGED <<sg_action, sg_vault, sg_nonce, sg_mainnet, sg_wallet, notSgVars>>

CallSignL1Action ==
    \E signed \in {signL1Action(sg_wallet, sg_action, sg_vault, sg_nonce, sg_mainnet)} :
        SigningCall("signL1Action",
                    IF signed.ok THEN Ok(signed.val) ELSE Fail(signed.err), signed.calls)

CallGetTxObject ==
    SigningCall("getTxObject",
                getTxObject(sg_action, sg_vault, sg_nonce, sg_mainnet), <<>>)

CallCreateL1ActionTypedData ==
    SigningCall("createL1ActionTypedData",
                createL1ActionTypedData(sg_action, sg_vault, sg_nonce, sg_mainnet), <<>>)

\* signUsdTransferAction, signWithdrawFromBridgeAction or signAgent
CallSignUserSigned ==
    /\ sg_action \in UserActions
    /\ \E kind \in UserSignKinds :
       \E signed \in {signByKind(kind, sg_wallet, sg_action, sg_mainnet)} :
        SigningCall(kind, IF signed.ok THEN Ok(signed.val) ELSE Fail(signed.err),
                    signed.calls)

\* the functions of the same names in mpcSigning
CallMpcSignUserSigned ==
    /\ sg_action \in UserActions
    /\ \E kind \in UserSignKinds :
        SigningCall(MpcName(kind),
                    Ok(mpc_signByKind(kind, sg_action, sg_mainnet)), <<>>)

CallCreateAgentTypedData ==
    /\ sg_action \in UserActions
    /\ SigningCall("createAgentTypedData",
                   Ok(createAgentTypedData(sg_action, sg_mainnet)), <<>>)

NextSigning ==
    \/ CallActionHash
    \/ CallSignInner
    \/ CallSignL1Action
    \/ CallGetTxObject
    \/ CallCreateL1ActionTypedData
    \/ CallSignUserSigned
    \/ CallMpcSignUserSigned
    \/ CallCreateAgentTypedData

SpecSigning == InitSigning /\ [][NextSigning]_vars
-----------------------------------------------------------------------------
\* The numeric encoder applied to one argument

IpValues == {0, 1, 2, 10, 2500}
F8Values == {0, 1, 12345678, 50000000, 99999999}
TailValues ==
    {0, 1, Eps12 - 1, Eps12, TailMod \div 2 - 1, TailMod \div 2,
     TailMod - Eps12, TailMod - Eps12 + 1, TailMod - 1}
BigExpValues == {21, 22, 30}

NumInputs ==
    {Fin(neg, ip, f8, tail) :
        neg \in BOOLEAN, ip \in IpValues, f8 \in F8Values, tail \in TailValues}
    \cup {Big(neg, ip, f8, e) :
        neg \in BOOLEAN, ip \in {1, 9}, f8 \in {0, 50000000}, e \in BigExpValues}
    \cup {NaN, Inf(FALSE), Inf(TRUE)}

InitNumeric ==
    /\ num_x \in NumInputs
    /\ num_fn = "none"
    /\ num_out = NoResult
    /\ int_out = NoResult
    /\ CuIdle
    /\ CcIdle
    /\ OwIdle
    /\ OaIdle
    /\ ExIdle
    /\ SgIdle

CallFloatToWire ==
    /\ num_fn = "none"
    /\ num_fn' = "floatToWire"
    /\ num_out' = floatToWire(num_x)
    /\ UNCHANGED <<num_x, int_out, notNumVars>>

CallFloatToIntForHashing ==
    /\ num_fn = "none"
    /\ num_fn' = "floatToIntForHashing"
    /\ int_out' = floatToIntForHashing(num_x)
    /\ UNCHANGED <<num_x, num_out, notNumVars>>

CallFloatToUsdInt ==
    /\ num_fn = "none"
    /\ num_fn' = "floatToUsdInt"
    /\ int_out' = floatToUsdInt(num_x)
    /\ UNCHANGED <<num_x, num_out, notNumVars>>

NextNumeric ==
    \/ CallFloatToWire
    \/ CallFloatToIntForHashing
    \/ CallFloatToUsdInt

SpecNumeric == InitNumeric /\ [][NextNumeric]_vars

-----------------------------------------------------------------------------
\* The order mapper applied to one order

Cloids == {"0x1234"}
Tifs == {"Gtc", "Ioc"}

\* prices and sizes; the second of each cannot be encoded in 8 decimals
SzValues == {Fin(FALSE, 1, 0, 0), Fin(FALSE, 0, 0, TailMod \div 2)}
PxValues == {Fin(FALSE, 2500, 12345678, 0), Fin(FALSE, 2500, 12345678, TailMod \div 2)}
TriggerPxValues ==
    {NumVal(Fin(FALSE, 2500, 50000000, 0)),
     NumVal(Fin(FALSE, 2500, 12345678, TailMod \div 2)),
     StrVal(<<"1", ".", "5", "0">>)}

LimitTypes == {[tif |-> tif] : tif \in Tifs}
TriggerTypes ==
    {[isMarket |-> m, triggerPx |-> px, tpsl |-> tpsl] :
        m \in BOOLEAN, px \in TriggerPxValues, tpsl \in {"tp", "sl"}}

OrderTypeInputs ==
    {[limit |-> Some(l), trigger |-> Undefined] : l \in LimitTypes}
    \cup {[limit |-> Undefined, trigger |-> Some(tr)] : tr \in TriggerTypes}
    \cup {[limit |-> Some(l), trigger |-> Some(tr)] :
            l \in {[tif |-> "Gtc"]},
            tr \in {[isMarket |-> TRUE, triggerPx |-> NumVal(Fin(FALSE, 1, 0, 0)),
                     tpsl |-> "tp"]}}
    \cup {[limit |-> Undefined, trigger |-> Undefined]}

OrderInputs ==
    {[coin |-> coin, is_buy |-> b, sz |-> sz, limit_px |-> px, order_type |-> ot,
      reduce_only |-> r, cloid |-> c] :
        coin \in Coins, b \in BOOLEAN, sz \in SzValues, px \in PxValues,
        ot \in OrderTypeInputs, r \in BOOLEAN,
        c \in {Undefined} \cup {Some(id) : id \in Cloids}}

AssetIndices == {0, 5}

InitOrderWire ==
    /\ ow_order \in OrderInputs
    /\ ow_asset \in AssetIndices
    /\ ow_fn = "none"
    /\ ow_type = NoResult
    /\ ow_wire = NoResult
    /\ CuIdle
    /\ CcIdle
    /\ NumIdle
    /\ OaIdle
    /\ ExIdle
    /\ SgIdle

CallOrderTypeToWire ==
    /\ ow_fn = "none"
    /\ ow_fn' = "orderTypeToWire"
    /\ ow_type' = orderTypeToWire(ow_order.order_type)
    /\ UNCHANGED <<ow_order, ow_asset, ow_wire, notOwVars>>

CallOrderToWire ==
    /\ ow_fn = "none"
    /\ ow_fn' = "orderToWire"
    /\ ow_wire' = orderToWire(ow_order, ow_asset)
    /\ UNCHANGED <<ow_order, ow_asset, ow_type, notOwVars>>

NextOrderWire ==
    \/ CallOrderTypeToWire
    \/ CallOrderToWire

SpecOrderWire == InitOrderWire /\ [][NextOrderWire]_vars

-----------------------------------------------------------------------------
\* The order action builder applied to a list of wire orders

MaxWires == 2

\* wire orders as orderToWire returns them
SampleOrders ==
    {[coin |-> "ETH", is_buy |-> TRUE, sz |-> Fin(FALSE, 1, 0, 0),
      limit_px |-> Fin(FALSE, 2500, 12345678, 0),
      order_type |-> [limit |-> Some([tif |-> "Gtc"]), trigger |-> Undefined],
      reduce_only |-> FALSE, cloid |-> Undefined],
     [coin |-> "BTC", is_buy |-> FALSE, sz |-> Fin(FALSE, 2, 50000000, 0),
      limit_px |-> Fin(FALSE, 10, 0, 0),
      order_type |-> [limit |-> Undefined,
                      trigger |-> Some([isMarket |-> TRUE,
                                        triggerPx |-> NumVal(Fin(FALSE, 10, 50000000, 0)),
                                        tpsl |-> "sl"])],
      reduce_only |-> TRUE, cloid |-> Some("0x1234")]}

SampleWires ==
    {orderToWire(o, a).val : o \in SampleOrders, a \in AssetIndices}

SeqsUpTo(S, n) == UNION {[1..k -> S] : k \in 0..n}

Groupings == {"na", "normalTpsl", "positionTpsl"}
Builders == {[b |-> "0xb0b", f |-> 10]}

InitOrderAction ==
    /\ oa_orders \in SeqsUpTo(SampleWires, MaxWires)
    /\ oa_grouping \in Groupings
    /\ oa_builder \in {Undefined} \cup {Some(b) : b \in Builders}
    /\ oa_action = NoResult
    /\ CuIdle
    /\ CcIdle
    /\ NumIdle
    /\ OwIdle
    /\ ExIdle
    /\ SgIdle

CallOrderWiresToOrderAction ==
    /\ oa_action = NoResult
    /\ oa_action' = Ok(orderWiresToOrderAction(oa_orders, oa_grouping, oa_builder))
    /\ UNCHANGED <<oa_orders, oa_grouping, oa_builder, notOaVars>>

NextOrderAction == CallOrderWiresToOrderAction

SpecOrderAction == InitOrderAction /\ [][NextOrderAction]_vars

-----------------------------------------------------------------------------
\* One call of an ExchangeAPI method: resolve, build, sign, submit

MaxOrders == 2
MaxClock == 1

\* an order whose size cannot be encoded, next to the two that can
BadOrder ==
    [coin |-> "ETH", is_buy |-> TRUE, sz |-> Fin(FALSE, 0, 0, TailMod \div 2),
     limit_px |-> Fin(FALSE, 2500, 0, 0),
     order_type |-> [limit |-> Some([tif |-> "Ioc"]), trigger |-> Undefined],
     reduce_only |-> FALSE, cloid |-> Undefined]

ExOrders == SampleOrders \cup {BadOrder}

\* vaultAddress, grouping and builder of an order request, each optional
RequestOptions ==
    {[vaultAddress |-> Undefined, grouping |-> Undefined, builder |-> Undefined],
     [vaultAddress |-> Some(VaultA), grouping |-> Some("normalTpsl"),
      builder |-> Some([b |-> "0xb0b", f |-> 10])],
     [vaultAddress |-> Some(""), grouping |-> Undefined, builder |-> Undefined],
     [vaultAddress |-> Some(NotHex), grouping |-> Undefined, builder |-> Undefined]}

\* an order request carries an orders array or is itself the one order
OrderRequests ==
    {[orders |-> Some(os), order |-> NoOrder, opts |-> opts] :
        os \in SeqsUpTo(ExOrders, MaxOrders), opts \in RequestOptions}
    \cup {[orders |-> Undefined, order |-> o, opts |-> opts] :
        o \in ExOrders, opts \in RequestOptions}

OrdersArray(orderRequest) ==
    IF orderRequest.orders /= Undefined
    THEN Get(orderRequest.orders) ELSE <<orderRequest.order>>

OrderExtra(orderRequest) ==
    [vaultAddress |-> IF orderRequest.opts.vaultAddress = Undefined
                      THEN Null ELSE Get(orderRequest.opts.vaultAddress),
     grouping |-> IF orderRequest.opts.grouping = Undefined
                  THEN "na" ELSE Get(orderRequest.opts.grouping),
     builder |-> orderRequest.opts.builder,
     requestVault |-> orderRequest.opts.vaultAddress,
     hasOrders |-> orderRequest.orders /= Undefined]

Oids == {123, 456}
CancelRequests == {[coin |-> coin, o |-> o] : coin \in Coins, o \in Oids}

\* cancelOrder takes one request or an array of them
CancelInputs ==
    {[isArray |-> TRUE, items |-> cs] : cs \in SeqsUpTo(CancelRequests, MaxOrders)}
    \cup {[isArray |-> FALSE, items |-> <<c>>] : c \in CancelRequests}

AssetMaps ==
    {[coin \in Coins |-> IF coin = "ETH" THEN e ELSE b] :
        e \in {Undefined, Some(5)}, b \in {Undefined, Some(0)}}

\* with a private key on mainnet or testnet, or without one
Apis ==
    {[wallet |-> EthersWallet, IS_MAINNET |-> TRUE],
     [wallet |-> EthersWallet, IS_MAINNET |-> FALSE],
     [wallet |-> UndefinedWallet, IS_MAINNET |-> TRUE]}

EmptyCache == [coin \in Coins |-> Undefined]

\* a clock that never gives the value another call has taken as its nonce
DateNow_Unique ==
    IF cc_other.signed /= Undefined /\ Get(cc_other.signed).nonce = clock
    THEN [clock EXCEPT ![4] = @ + 1] ELSE clock

\* Date.now()
DateNow == clock

Init ==
    /\ api \in Apis
    /\ assetMap \in AssetMaps
    /\ clock = Zero64
    /\ ex_op = "none"
    /\ ex_reqs = <<>>
    /\ ex_extra = NoCall
    /\ ex_pc = "idle"
    /\ ex_status = <<>>
    /\ ex_idx = <<>>
    /\ ex_wires = <<>>
    /\ ex_cache = EmptyCache
    /\ ex_calls = [coin \in Coins |-> 0]
    /\ ex_action = Undefined
    /\ ex_signed = Undefined
    /\ ex_sig = Undefined
    /\ ex_payload = Undefined
    /\ ex_out = NoResult
    /\ CuIdle
    /\ CcIdle
    /\ NumIdle
    /\ OwIdle
    /\ OaIdle
    /\ SgIdle

\* the method runs up to its first await: every element's callback has looked
\* into the (new, empty) cache and called getAssetIndex, which has called
\* symbolConversion.getAssetIndex before its own await
Begin(op, reqs, extra) ==
    /\ ex_op' = op
    /\ ex_reqs' = reqs
    /\ ex_extra' = extra
    /\ ex_pc' = "resolving"
    /\ ex_cache' = EmptyCache
    /\ ex_status' = [i \in 1..Len(reqs) |->
                        IF op \in CachingOps /\ EmptyCache[reqs[i].coin] /= Undefined
                        THEN "resolved" ELSE "awaiting"]
    /\ ex_idx' = [i \in 1..Len(reqs) |->
                        IF op \in CachingOps /\ EmptyCache[reqs[i].coin] /= Undefined
                        THEN Some(Ok(Get(EmptyCache[reqs[i].coin]))) ELSE Undefined]
    /\ ex_calls' = [coin \in Coins |->
                        Cardinality({i \in 1..Len(reqs) :
                            /\ reqs[i].coin = coin
                            /\ ~(op \in CachingOps /\ EmptyCache[coin] /= Undefined)})]
    /\ ex_wires' = [i \in 1..Len(reqs) |-> Undefined]
    /\ UNCHANGED <<api, assetMap, clock, ex_action, ex_signed, ex_sig, ex_payload, ex_out,
                   notExVars>>

\* a method that does not resolve assets runs up to its first await or to its
\* return
Direct(op, extra, action, signed, payload, pc, out) ==
    /\ ex_op' = op
    /\ ex_reqs' = <<>>
    /\ ex_extra' = extra
    /\ ex_status' = <<>>
    /\ ex_idx' = <<>>
    /\ ex_wires' = <<>>
    /\ ex_cache' = EmptyCache
    /\ ex_calls' = [coin \in Coins |-> 0]
    /\ ex_action' = action
    /\ ex_signed' = signed
    /\ ex_payload' = payload
    /\ ex_pc' = pc
    /\ ex_out' = out
    /\ UNCHANGED <<api, assetMap, clock, ex_sig, notExVars>>

\* createL1ActionTypedDataWithHash(action, vaultAddress = null, nonce = Date.now())
CallCreateL1ActionTypedDataWithHash ==
    /\ ex_pc = "idle"
    /\ \E action \in HashActions,
          vaultAddress \in {Undefined, Some(VaultA), Some(NotHex)},
          nonce \in {Undefined, Some(<<0, 0, 1, 0>>)} :
        \E data \in {createL1ActionTypedData(
                        action,
                        IF vaultAddress = Undefined THEN Null ELSE Get(vaultAddress),
                        IF nonce = Undefined THEN DateNow ELSE Get(nonce),
                        api.IS_MAINNET)} :
            Direct("createL1ActionTypedDataWithHash",
                   [keys |-> <<"action", "vaultAddress", "nonce">>, action |-> action,
                    vaultAddress |-> vaultAddress, nonce |-> nonce],
                   Some(action), Undefined, Undefined,
                   IF data.ok THEN "returned" ELSE "failed", data)

\* a method that builds its action from its arguments and awaits its signing
\* function
DirectSign(op, args) ==
    \E action \in {IF op \in UserSignOps
                   THEN SetHyperliquidChain(
                            DirectAction(op, args, api.IS_MAINNET, DateNow), api.IS_MAINNET)
                   ELSE DirectAction(op, args, api.IS_MAINNET, DateNow)} :
        Direct(op, args, Some(action),
               Some([action |-> action, activePool |-> Null, nonce |-> DateNow]),
               Undefined, "signing", NoResult)

Amounts == {1, 250}

CallUsdTransfer ==
    /\ ex_pc = "idle"
    /\ \E destination \in {VaultB}, amount \in Amounts :
        DirectSign("usdTransfer", [destination |-> destination, amount |-> amount])

CallSpotTransfer ==
    /\ ex_pc = "idle"
    /\ \E destination \in {VaultB}, token \in {"PURR:0xc1fb593aeffbeb02f85e0308e9956a90"},
          amount \in {<<"1", ".", "5">>, <<"2", "0">>} :
        DirectSign("spotTransfer",
                   [destination |-> destination, token |-> token, amount |-> amount])

CallInitiateWithdrawal ==
    /\ ex_pc = "idle"
    /\ \E destination \in {VaultB}, amount \in Amounts :
        DirectSign("initiateWithdrawal", [destination |-> destination, amount |-> amount])

CallTransferBetweenSpotAndPerp ==
    /\ ex_pc = "idle"
    /\ \E usdc \in Amounts, toPerp \in BOOLEAN :
        DirectSign("transferBetweenSpotAndPerp", [usdc |-> usdc, toPerp |-> toPerp])

CallScheduleCancel ==
    /\ ex_pc = "idle"
    /\ \E timed \in BOOLEAN :
        DirectSign("scheduleCancel", [time |-> IF timed THEN <<0, 0, 2, 0>> ELSE Null])

CallVaultTransfer ==
    /\ ex_pc = "idle"
    /\ \E vaultAddress \in {VaultA}, isDeposit \in BOOLEAN, usd \in Amounts :
        DirectSign("vaultTransfer",
                   [vaultAddress |-> vaultAddress, isDeposit |-> isDeposit, usd |-> usd])

CallSetReferrer ==
    /\ ex_pc = "idle"
    /\ \E code \in {"REF1", "REF2"} :
        DirectSign("setReferrer", [code |-> code])

CallCreateTransferTypedData ==
    /\ ex_pc = "idle"
    /\ \E destination \in {VaultB}, amount \in Amounts :
        \E action \in {DirectAction("createTransferTypedData",
                            [destination |-> destination, amount |-> amount],
                            api.IS_MAINNET, DateNow)} :
            Direct("createTransferTypedData",
                   [destination |-> destination, amount |-> amount],
                   Some(action), Undefined, Undefined, "returned",
                   Ok(TransferTypedData(action)))

CallCreateAgentApprovalTypedData ==
    /\ ex_pc = "idle"
    /\ \E agentAddress \in {VaultA}, agentName \in {"agent", ""} :
        \E data \in {createAgentTypedData(
                        DirectAction("createAgentApprovalTypedData",
                            [agentAddress |-> agentAddress, agentName |-> agentName],
                            api.IS_MAINNET, DateNow),
                        api.IS_MAINNET)} :
            Direct("createAgentApprovalTypedData",
                   [agentAddress |-> agentAddress, agentName |-> agentName],
                   Some(data.action), Undefined, Undefined, "returned", Ok(data))

\* signatures handed to submitSignedAction: the string a wallet returned for
\* the typed data of the cancel action, a string that is no signature, and a
\* signature already split
SubmittedData == getTxObject(SampleCancelAction, Null, <<0, 0, 1, 0>>, TRUE).val
SubmittedHex ==
    SignatureHex(<<SubmittedData.domain, SubmittedData.types, SubmittedData.message>>)
SplitSignature == splitSig(SignatureHex(<<"signed elsewhere">>)).val
SubmittedSignatures == {SubmittedHex, NotASignature, SplitSignature}

\* submitSignedAction(action, nonce, signature, vaultAddress = null);
\* submitSignedActionWithStringSignature passes its arguments on
SubmitSigned(op, action, nonce, signature, vaultAddress) ==
    \E payload \in {submitSignedAction(action, nonce, signature,
                        IF vaultAddress = Undefined THEN Null ELSE Get(vaultAddress))} :
        Direct(op,
               [keys |-> <<"action", "nonce", "signature", "vaultAddress">>,
                action |-> action, nonce |-> nonce, signature |-> signature,
                vaultAddress |-> vaultAddress],
               Some(action), Undefined,
               IF payload.ok THEN Some(payload.val) ELSE Undefined,
               IF payload.ok THEN "sending" ELSE "failed",
               IF payload.ok THEN NoResult ELSE payload)

CallSubmitSignedAction ==
    /\ ex_pc = "idle"
    /\ \E action \in {NoopAction, SampleCancelAction},
          nonce \in {Zero64, <<0, 0, 1, 0>>},
          signature \in SubmittedSignatures,
          vaultAddress \in {Undefined, Some(VaultA)} :
        SubmitSigned("submitSignedAction", action, nonce, signature, vaultAddress)

CallSubmitSignedActionWithStringSignature ==
    /\ ex_pc = "idle"
    /\ \E action \in {NoopAction, SampleCancelAction},
          nonce \in {Zero64, <<0, 0, 1, 0>>},
          signature \in {sig \in SubmittedSignatures : IsString(sig)},
          vaultAddress \in {Undefined, Some(VaultA)} :
        SubmitSigned("submitSignedActionWithStringSignature", action, nonce, signature,
                     vaultAddress)

Modifies == {[oid |-> 123, order |-> o] : o \in ExOrders}

CallBatchModifyOrders ==
    /\ ex_pc = "idle"
    /\ \E modifies \in SeqsUpTo(Modifies, MaxOrders) :
        Begin("batchModifyOrders",
              [i \in 1..Len(modifies) |->
                    [coin |-> modifies[i].order.coin, oid |-> modifies[i].oid,
                     order |-> modifies[i].order]],
              NoCall)

CallPlaceOrder ==
    /\ ex_pc = "idle"
    /\ \E orderRequest \in OrderRequests :
        Begin("placeOrder", OrdersArray(orderRequest), OrderExtra(orderRequest))

CallGetTxObjectPlaceOrder ==
    /\ ex_pc = "idle"
    /\ \E orderRequest \in OrderRequests :
        Begin("getTxObjectPlaceOrder", OrdersArray(orderRequest),
              OrderExtra(orderRequest))

CallCreateOrderTypedData ==
    /\ ex_pc = "idle"
    /\ \E orderRequest \in OrderRequests :
        Begin("createOrderTypedData", OrdersArray(orderRequest),
              OrderExtra(orderRequest))

CallPlaceOrdersTpSl ==
    /\ ex_pc = "idle"
    /\ \E orderRequest \in OrderRequests :
        Begin("placeOrdersTpSl", OrdersArray(orderRequest), OrderExtra(orderRequest))

CallCancelOrder ==
    /\ ex_pc = "idle"
    /\ \E cancelRequests \in CancelInputs :
        Begin("cancelOrder", cancelRequests.items, NoCall)

CallCreateCancelOrderTypedData ==
    /\ ex_pc = "idle"
    /\ \E cancelRequests \in CancelInputs :
        Begin("createCancelOrderTypedData", cancelRequests.items, NoCall)

CallCancelOrderByCloid ==
    /\ ex_pc = "idle"
    /\ \E symbol \in Coins, cloid \in Cloids :
        Begin("cancelOrderByCloid", <<[coin |-> symbol, cloid |-> cloid]>>, NoCall)

CallModifyOrder ==
    /\ ex_pc = "idle"
    /\ \E oid \in Oids, orderRequest \in ExOrders :
        Begin("modifyOrder", <<orderRequest>>, [oid |-> oid])

CallUpdateLeverage ==
    /\ ex_pc = "idle"
    /\ \E symbol \in Coins, leverageMode \in {"cross", "isolated"}, leverage \in {1, 20} :
        Begin("updateLeverage", <<[coin |-> symbol]>>,
              [leverageMode |-> leverageMode, leverage |-> leverage])

CallUpdateIsolatedMargin ==
    /\ ex_pc = "idle"
    /\ \E symbol \in Coins, isBuy \in BOOLEAN, ntli \in {1000000} :
        Begin("updateIsolatedMargin", <<[coin |-> symbol]>>,
              [isBuy |-> isBuy, ntli |-> ntli])

\* the first rejection settles the call; later ones are not observed
Reject(err) ==
    IF ex_pc = "resolving"
    THEN ex_pc' = "failed" /\ ex_out' = err
    ELSE UNCHANGED <<ex_pc, ex_out>>

\* symbolConversion.getAssetIndex returns for request i and getAssetIndex
\* returns the index or throws
ResolverReturns(i) ==
    /\ ex_status[i] = "awaiting"
    /\ \E r \in {getAssetIndex(ex_reqs[i].coin, assetMap[ex_reqs[i].coin])} :
           /\ ex_idx' = [ex_idx EXCEPT ![i] = Some(r)]
           /\ ex_status' = [ex_status EXCEPT ![i] = IF r.ok THEN "resolved" ELSE "failed"]
           /\ IF r.ok THEN UNCHANGED <<ex_pc, ex_out>> ELSE Reject(r)
    /\ UNCHANGED <<api, assetMap, clock, ex_op, ex_reqs, ex_extra, ex_wires, ex_cache,
                   ex_calls, ex_action, ex_signed, ex_sig, ex_payload, notExVars>>

\* the callback of request i continues after its await: placeOrder stores the
\* index in the cache; the wire order or the cancel entry is built
CallbackContinues(i) ==
    /\ ex_op \in BatchOps
    /\ ex_status[i] = "resolved"
    /\ \E assetIndex \in {Get(ex_idx[i]).val} :
       \E entry \in {EntryOf(ex_op, ex_reqs[i], assetIndex)} :
           /\ ex_cache' = IF ex_op \in CachingOps
                          THEN [ex_cache EXCEPT ![ex_reqs[i].coin] = Some(assetIndex)]
                          ELSE ex_cache
           /\ ex_wires' = IF entry.ok
                          THEN [ex_wires EXCEPT ![i] = Some(entry.val)] ELSE ex_wires
           /\ ex_status' = [ex_status EXCEPT ![i] = IF entry.ok THEN "done" ELSE "failed"]
           /\ IF entry.ok THEN UNCHANGED <<ex_pc, ex_out>> ELSE Reject(entry)
    /\ UNCHANGED <<api, assetMap, clock, ex_op, ex_reqs, ex_extra, ex_idx, ex_calls,
                   ex_action, ex_signed, ex_sig, ex_payload, notExVars>>

\* every awaited index is there
Resolved ==
    IF ex_op \in BatchOps
    THEN \A i \in 1..Len(ex_reqs) : ex_status[i] = "done"
    ELSE \A i \in 1..Len(ex_reqs) : ex_status[i] = "resolved"

\* the action is built and the nonce is read from the clock; the methods that
\* return typed data return it, the others call signL1Action or getTxObject
BuildAction ==
    /\ ex_pc = "resolving"
    /\ Resolved
    /\ \E action \in {ActionOf(ex_op, ex_reqs, ex_extra, ex_idx, ex_wires)} :
           IF action.ok /\ ex_op \in TypedDataOps
           THEN /\ ex_action' = Some(action.val)
                /\ ex_pc' = "returned"
                /\ ex_out' = Ok(PlaceholderTypedData(api.IS_MAINNET, action.val, DateNow,
                                    IF ex_op = "createOrderTypedData"
                                    THEN ex_extra.vaultAddress ELSE Null))
                /\ UNCHANGED <<ex_signed, ex_wires, ex_status>>
           ELSE IF action.ok
           THEN /\ ex_action' = Some(action.val)
                /\ ex_signed' = Some([action |-> action.val,
                                      activePool |-> SignedVault(ex_op, ex_extra),
                                      nonce |-> DateNow])
                /\ ex_pc' = "signing"
                /\ ex_wires' = IF ex_op = "modifyOrder"
                               THEN <<Some(action.val.order)>> ELSE ex_wires
                /\ ex_status' = IF ex_op \in BatchOps THEN ex_status
                                ELSE [i \in 1..Len(ex_reqs) |-> "done"]
                /\ UNCHANGED ex_out
           ELSE /\ ex_pc' = "failed"
                /\ ex_out' = action
                /\ ex_status' = [i \in 1..Len(ex_reqs) |-> "failed"]
                /\ UNCHANGED <<ex_action, ex_signed, ex_wires>>
    /\ UNCHANGED <<api, assetMap, clock, ex_op, ex_reqs, ex_extra, ex_idx, ex_cache,
                   ex_calls, ex_sig, ex_payload, notExVars>>

\* getTxObject settles: getTxObjectPlaceOrder returns the payload with the
\* typed data in the place of the signature
TxObjectReturns ==
    /\ ex_pc = "signing"
    /\ ex_op = "getTxObjectPlaceOrder"
    /\ \E s \in {Get(ex_signed)} :
       \E signature \in {getTxObject(s.action, s.activePool, s.nonce, api.IS_MAINNET)} :
           IF signature.ok
           THEN /\ ex_pc' = "returned"
                /\ ex_out' = Ok(PayloadOf(ex_op, ex_extra, Get(ex_action), s.nonce,
                                          signature.val))
           ELSE /\ ex_pc' = "failed"
                /\ ex_out' = signature
    /\ UNCHANGED <<api, assetMap, clock, ex_op, ex_reqs, ex_extra, ex_status, ex_idx,
                   ex_wires, ex_cache, ex_calls, ex_action, ex_signed, ex_sig, ex_payload,
                   notExVars>>

\* the signing function settles: the payload is assembled and handed to makeRequest
SignReturns ==
    /\ ex_pc = "signing"
    /\ ex_op /= "getTxObjectPlaceOrder"
    /\ \E s \in {Get(ex_signed)} :
       \E signature \in {SignOf(ex_op, api.wallet, s, api.IS_MAINNET)} :
           /\ ex_sig' = Some(signature)
           /\ IF signature.ok
              THEN /\ ex_payload' = Some(PayloadOf(ex_op, ex_extra, Get(ex_action),
                                                   s.nonce, signature.val))
                   /\ ex_pc' = "sending"
                   /\ UNCHANGED ex_out
              ELSE /\ ex_pc' = "failed"
                   /\ ex_out' = Fail(signature.err)
                   /\ UNCHANGED ex_payload
    /\ UNCHANGED <<api, assetMap, clock, ex_op, ex_reqs, ex_extra, ex_status, ex_idx,
                   ex_wires, ex_cache, ex_calls, ex_action, ex_signed, notExVars>>

\* makeRequest settles
RequestReturns ==
    /\ ex_pc = "sending"
    /\ \E ok \in BOOLEAN :
        IF ok
        THEN ex_pc' = "returned" /\ ex_out' = Ok("response")
        ELSE ex_pc' = "failed" /\ ex_out' = Fail(ErrRequest)
    /\ UNCHANGED <<api, assetMap, clock, ex_op, ex_reqs, ex_extra, ex_status, ex_idx,
                   ex_wires, ex_cache, ex_calls, ex_action, ex_signed, ex_sig, ex_payload,
                   notExVars>>

\* time passes. A call reads the clock once, when it builds its action, so the
\* time that passes during a call is the same to it as time passed before it
Tick ==
    /\ clock[4] < MaxClock
    /\ ex_pc = "idle"
    /\ clock' = [clock EXCEPT ![4] = @ + 1]
    /\ UNCHANGED <<api, assetMap, ex_op, ex_reqs, ex_extra, ex_pc, ex_status, ex_idx,
                   ex_wires, ex_cache, ex_calls, ex_action, ex_signed, ex_sig, ex_payload,
                   ex_out, notExVars>>

Next ==
    \/ CallCreateL1ActionTypedDataWithHash
    \/ CallPlaceOrder
    \/ CallGetTxObjectPlaceOrder
    \/ CallCreateOrderTypedData
    \/ CallPlaceOrdersTpSl
    \/ CallCancelOrder
    \/ CallCreateCancelOrderTypedData
    \/ CallCancelOrderByCloid
    \/ CallModifyOrder
    \/ CallUpdateLeverage
    \/ CallUpdateIsolatedMargin
    \/ CallBatchModifyOrders
    \/ CallUsdTransfer
    \/ CallSpotTransfer
    \/ CallInitiateWithdrawal
    \/ CallTransferBetweenSpotAndPerp
    \/ CallScheduleCancel
    \/ CallVaultTransfer
    \/ CallSetReferrer
    \/ CallCreateTransferTypedData
    \/ CallCreateAgentApprovalTypedData
    \/ CallSubmitSignedAction
    \/ CallSubmitSignedActionWithStringSignature
    \/ \E i \in 1..Len(ex_reqs) : ResolverReturns(i)
    \/ \E i \in 1..Len(ex_reqs) : CallbackContinues(i)
    \/ BuildAction
    \/ TxObjectReturns
    \/ SignReturns
    \/ RequestReturns
    \/ Tick

Spec == Init /\ [][Next]_vars

-----------------------------------------------------------------------------
\* Calls of cancelAllOrders and marketClose on the three custom-operation classes

MaxOpenOrders == 2
MaxPositions == 2

\* the classes as their constructors leave them: walletAddress defaults to null
\* in custom.ts and part_001 and is a required string in mpcCustom.ts
Constructed ==
    {<<impl, walletAddress>> : impl \in {CustomTs, CustomPart001},
                               walletAddress \in {Null, "", VaultA}}
        \cup {<<MpcCustomTs, walletAddress>> : walletAddress \in {"", VaultA}}

Symbols == {"BTC", "ETH", "BTC-PERP", "ETH-PERP"}

\* symbolConversion.convertSymbol is not among the sources: its answers are inputs
Conversions ==
    {[symbol \in Symbols |-> symbol],
     [symbol \in Symbols |-> CASE symbol = "BTC" -> "BTC-PERP"
                               [] symbol = "ETH" -> "ETH-PERP"
                               [] OTHER -> symbol]}

OpenOrders == {[coin |-> coin, oid |-> oid] : coin \in {"BTC", "ETH"}, oid \in {7, 8}}

AssetPositions ==
    {[position |-> [coin |-> coin, szi |-> szi]] :
        coin \in {"BTC-PERP", "ETH-PERP"}, szi \in {0 - 2, 0, 3}}

\* what infoApi.getUserOpenOrders and the ExchangeAPI answer during a call
OpenOrderAnswers ==
    {[ok |-> FALSE]}
        \cup {[ok |-> TRUE, exchangeOk |-> exchangeOk, openOrders |-> openOrders] :
                exchangeOk \in BOOLEAN, openOrders \in SeqsUpTo(OpenOrders, MaxOpenOrders)}

\* what infoApi.perpetuals.getClearinghouseState and the ExchangeAPI answer
PositionAnswers ==
    {[ok |-> FALSE]}
        \cup {[ok |-> TRUE, exchangeOk |-> exchangeOk, assetPositions |-> assetPositions] :
                exchangeOk \in BOOLEAN,
                assetPositions \in SeqsUpTo(AssetPositions, MaxPositions)}

CancelSymbols == {Undefined, Some(""), Some("BTC-PERP"), Some("ETH")}
CloseSymbols == {"BTC", "ETH-PERP"}
CloseSizes == {Undefined, Some(0), Some(1)}
ClosePrices == {Undefined, Some(100)}
CloseCloids == {Undefined, Some(""), Some("0x1234")}

InitCustom ==
    /\ \E c \in Constructed : cu_impl = c[1] /\ cu_walletAddress = c[2]
    /\ cu_convert \in Conversions
    /\ cu_fn = "none"
    /\ cu_args = NoCall
    /\ cu_info = NoCall
    /\ cu_calls = <<>>
    /\ cu_out = Fail(Error("not called", ""))
    /\ CcIdle
    /\ NumIdle
    /\ OwIdle
    /\ OaIdle
    /\ ExIdle
    /\ SgIdle

CustomCall(fn, args, info, ran) ==
    /\ cu_fn' = fn
    /\ cu_args' = args
    /\ cu_info' = info
    /\ cu_calls' = ran.calls
    /\ cu_out' = ran.out
    /\ UNCHANGED <<cu_impl, cu_walletAddress, cu_convert, notCuVars>>

CallCancelAllOrders ==
    /\ cu_fn = "none"
    /\ \E symbol \in CancelSymbols, info \in OpenOrderAnswers :
        CustomCall("cancelAllOrders", [symbol |-> symbol], info,
                   cancelAllOrders(cu_impl, cu_walletAddress, cu_convert, info, symbol))

CallMarketClose ==
    /\ cu_fn = "none"
    /\ \E symbol \in CloseSymbols, size \in CloseSizes, px \in ClosePrices,
          cloid \in CloseCloids, info \in PositionAnswers :
        CustomCall("marketClose",
                   [symbol |-> symbol, size |-> size, px |-> px,
                    slippage |-> DEFAULT_SLIPPAGE, cloid |-> cloid],
                   info,
                   marketClose(cu_impl, cu_walletAddress, cu_convert, info, symbol, size,
                               px, DEFAULT_SLIPPAGE, cloid))

NextCustom ==
    \/ CallCancelAllOrders
    \/ CallMarketClose

SpecCustom == InitCustom /\ [][NextCustom]_vars
-----------------------------------------------------------------------------
\* Two calls on one ExchangeAPI object. JavaScript runs one call at a time and
\* changes over at an await: the ex_ variables hold the call that is running,
\* cc_other the one that waits, and every step of a call is a step of Next
\* taken while that call runs

\* the locals and the position of the call that is running
Running ==
    [op |-> ex_op, reqs |-> ex_reqs, extra |-> ex_extra, pc |-> ex_pc,
     status |-> ex_status, idx |-> ex_idx, wires |-> ex_wires, cache |-> ex_cache,
     calls |-> ex_calls, action |-> ex_action, signed |-> ex_signed, sig |-> ex_sig,
     payload |-> ex_payload, out |-> ex_out]

\* an assetIndexCache that belongs to the object, not to the call
Resume_SharedCache(suspended, running) == [suspended EXCEPT !.cache = running.cache]

\* a call continues after its await with the locals its closure kept
Resume(suspended, running) == suspended

\* the running call waits at an await, or has settled, and the other call runs
Switch ==
    /\ ex_pc /= "idle"
    /\ \E call \in {Resume(cc_other, Running)} :
        /\ ex_op' = call.op
        /\ ex_reqs' = call.reqs
        /\ ex_extra' = call.extra
        /\ ex_pc' = call.pc
        /\ ex_status' = call.status
        /\ ex_idx' = call.idx
        /\ ex_wires' = call.wires
        /\ ex_cache' = call.cache
        /\ ex_calls' = call.calls
        /\ ex_action' = call.action
        /\ ex_signed' = call.signed
        /\ ex_sig' = call.sig
        /\ ex_payload' = call.payload
        /\ ex_out' = call.out
    /\ cc_other' = Running
    /\ cc_id' = 3 - cc_id
    /\ UNCHANGED <<api, assetMap, clock, numVars, owVars, oaVars, sgVars, cuVars>>

\* the clock advances, whatever the calls are doing
TimePasses ==
    /\ clock[4] < MaxClock
    /\ clock' = [clock EXCEPT ![4] = @ + 1]
    /\ UNCHANGED <<api, assetMap, ex_op, ex_reqs, ex_extra, ex_pc, ex_status, ex_idx,
                   ex_wires, ex_cache, ex_calls, ex_action, ex_signed, ex_sig, ex_payload,
                   ex_out, notExVars>>

\* the order requests and cancel requests of the two calls
ConcurrentOrderRequests ==
    {[orders |-> Some(os), order |-> NoOrder, opts |-> opts] :
        os \in [1..1 -> SampleOrders]
                \cup {pair \in [1..2 -> SampleOrders] : pair[1] /= pair[2]},
        opts \in {[vaultAddress |-> Undefined, grouping |-> Undefined,
                   builder |-> Undefined]}}

ConcurrentCancels == {<<[coin |-> coin, o |-> 123]>> : coin \in Coins}

InitConcurrent ==
    /\ api = [wallet |-> EthersWallet, IS_MAINNET |-> TRUE]
    /\ assetMap \in {[coin \in Coins |-> IF coin = "ETH" THEN e ELSE Some(0)] :
                        e \in {Undefined, Some(5)}}
    /\ clock = Zero64
    /\ ex_op = "none"
    /\ ex_reqs = <<>>
    /\ ex_extra = NoCall
    /\ ex_pc = "idle"
    /\ ex_status = <<>>
    /\ ex_idx = <<>>
    /\ ex_wires = <<>>
    /\ ex_cache = EmptyCache
    /\ ex_calls = [coin \in Coins |-> 0]
    /\ ex_action = Undefined
    /\ ex_signed = Undefined
    /\ ex_sig = Undefined
    /\ ex_payload = Undefined
    /\ ex_out = NoResult
    /\ CcIdle
    /\ CuIdle
    /\ NumIdle
    /\ OwIdle
    /\ OaIdle
    /\ SgIdle

ConcurrentPlaceOrder ==
    /\ ex_pc = "idle"
    /\ \E orderRequest \in ConcurrentOrderRequests :
        Begin("placeOrder", OrdersArray(orderRequest), OrderExtra(orderRequest))

ConcurrentCancelOrder ==
    /\ ex_pc = "idle"
    /\ \E cancelRequests \in ConcurrentCancels :
        Begin("cancelOrder", cancelRequests, NoCall)

ConcurrentUsdTransfer ==
    /\ ex_pc = "idle"
    /\ DirectSign("usdTransfer", [destination |-> VaultB, amount |-> 1])

NextConcurrent ==
    \/ ConcurrentPlaceOrder
    \/ ConcurrentCancelOrder
    \/ ConcurrentUsdTransfer
    \/ \E i \in 1..Len(ex_reqs) : ResolverReturns(i)
    \/ \E i \in 1..Len(ex_reqs) : CallbackContinues(i)
    \/ BuildAction
    \/ SignReturns
    \/ RequestReturns
    \/ Switch
    \/ TimePasses

SpecConcurrent == InitConcurrent /\ [][NextConcurrent]_vars
-----------------------------------------------------------------------------
\* Claims about the numeric wire encoder (checked under SpecNumeric)

\* x has at most 8 fractional decimal digits (a magnitude >= 1e21 is an integer)
Representable8(x) == (x.k = "fin" /\ x.tail = 0) \/ x.k = "big"

\* C1: for every finite x exactly representable with at most 8 fractional
\* digits, floatToWire(x) returns a string and parsing it back yields x.
C1_RoundTrip ==
    (num_fn = "floatToWire" /\ IsFiniteNum(num_x) /\ Representable8(num_x))
        => (num_out.ok /\ NumEq(parseFloat(num_out.val), num_x))

RECURSIVE DropTrailingZeroDigits(_)
DropTrailingZeroDigits(s) ==
    IF Len(s) > 0 /\ s[Len(s)] = "0"
    THEN DropTrailingZeroDigits(SubSeq(s, 1, Len(s) - 1))
    ELSE s

\* the canonical form of a formatted number: the fractional digits (between
\* the '.' and the exponent, if any) lose their trailing zeros, the '.' goes
\* when nothing follows it, everything else stays, and "-0" becomes "0"
CanonicalOf(fmt) ==
    LET ePos  == IndexOf(fmt, "e")
        mant  == IF ePos = 0 THEN fmt ELSE SubSeq(fmt, 1, ePos - 1)
        suffix == IF ePos = 0 THEN <<>> ELSE SubSeq(fmt, ePos, Len(fmt))
        dot   == IndexOf(mant, ".")
        intS  == IF dot = 0 THEN mant ELSE SubSeq(mant, 1, dot - 1)
        fracS == IF dot = 0 THEN <<>>
                 ELSE DropTrailingZeroDigits(SubSeq(mant, dot + 1, Len(mant)))
        c     == intS \o (IF fracS = <<>> THEN <<>> ELSE <<".">> \o fracS) \o suffix
    IN  IF c = <<"-", "0">> THEN <<"0">> ELSE c

\* C2: every string floatToWire returns is the 8-fractional-digit formatting
\* of x without the trailing zeros of the fractional part and without a
\* dangling '.', is never "-0", never ends in '.' or in a zero after a '.',
\* and keeps the digits of the integer part.
C2_Canonical ==
    (num_fn = "floatToWire" /\ num_out.ok) =>
        LET out == num_out.val
        IN  /\ out = CanonicalOf(toFixed8(num_x))
            /\ out /= <<"-", "0">>
            /\ Len(out) > 0 /\ out[Len(out)] /= "."
            /\ (IndexOf(out, ".") /= 0 /\ IndexOf(out, "e") = 0) => out[Len(out)] /= "0"

\* |round8(x) - x| >= 1e-12, computed on the digits of x: a finite x below 1e21
\* is rounded at its eighth fractional digit, every other x has no such digit
RoundingLoss(x) ==
    /\ x.k = "fin"
    /\ (IF 2 * x.tail >= TailMod THEN TailMod - x.tail ELSE x.tail) >= Eps12

\* C3: floatToWire fails with the rounding-loss error, returning no string,
\* exactly when rounding x to 8 fractional digits moves it by 1e-12 or more.
C3_RoundingLossExactly ==
    num_fn = "floatToWire" =>
        /\ RoundingLoss(num_x) => num_out = Fail(ErrRounding)
        /\ ~RoundingLoss(num_x) => (num_out.ok /\ Len(num_out.val) > 0)

C3_Witness ==
    /\ num_fn = "floatToWire"
    /\ num_x = Fin(FALSE, 2500, 12345678, TailMod \div 2)
    /\ num_out = Fail(ErrRounding)

\* the integer nearest to x * 10^power and its distance from x * 10^power in
\* units of 1 / RemScale(power), for a finite x below 1e21
NearestInt(x, power) ==
    LET cut   == 10 ^ (FracDigits - power)
        low   == x.f8 \div cut
        r     == (x.f8 % cut) * TailMod + x.tail
        up    == 2 * r > RemScale(power)
        l     == IF up THEN low + 1 ELSE low
        carry == l = 10 ^ power
    IN  [int |-> [k |-> "fin", neg |-> x.neg,
                  hi |-> IF carry THEN x.ip + 1 ELSE x.ip,
                  lo |-> IF carry THEN 0 ELSE l, rem |-> 0, exp |-> 0],
         dist |-> IF up THEN RemScale(power) - r ELSE r]

\* x * 10^power has a nearest integer less than 1e-3 away
WithinMilli(x, power) ==
    \/ x.k = "big"
    \/ x.k = "fin" /\ NearestInt(x, power).dist < RemScale(power) \div 1000

floatToIntSpec(x, power, out) ==
    IF WithinMilli(x, power)
    THEN out = Ok(IF x.k = "big" THEN ScaleByPow10(x, power) ELSE NearestInt(x, power).int)
    ELSE out = Fail(ErrRounding)

\* C4: floatToInt(x, p) returns the integer nearest to x * 10^p when that
\* integer is less than 1e-3 away and fails with the rounding-loss error
\* otherwise; floatToIntForHashing is p = 8 and floatToUsdInt is p = 6.
C4_ScaledInt ==
    /\ num_fn = "floatToIntForHashing" => floatToIntSpec(num_x, 8, int_out)
    /\ num_fn = "floatToUsdInt" => floatToIntSpec(num_x, 6, int_out)

-----------------------------------------------------------------------------
\* Claims about the order wire mapper

\* the property names of an object, as a set
KeySet(obj) == {obj.keys[i] : i \in 1..Len(obj.keys)}

\* an object has exactly the properties its key list names
WellFormedObj(obj) == DOMAIN obj = KeySet(obj) \cup {"keys"}

\* C5: orderTypeToWire returns {limit} with the time-in-force unchanged when
\* limit is set; when only trigger is set it returns {trigger} whose triggerPx
\* is floatToWire of the input trigger price and whose isMarket and tpsl are
\* the input's (the encoder's failure is the call's failure); when neither is
\* set it fails with the invalid-order-type error and returns nothing.
C5_OrderTypeToWire ==
    ow_fn = "orderTypeToWire" =>
        LET ot == ow_order.order_type
        IN  /\ ot.limit /= Undefined =>
                /\ ow_type.ok
                /\ ow_type.val.keys = <<"limit">>
                /\ WellFormedObj(ow_type.val)
                /\ ow_type.val.limit = Get(ot.limit)
            /\ (ot.limit = Undefined /\ ot.trigger /= Undefined) =>
                LET px == floatToWire(ToNumber(Get(ot.trigger).triggerPx))
                IN  IF px.ok
                    THEN /\ ow_type.ok
                         /\ ow_type.val.keys = <<"trigger">>
                         /\ WellFormedObj(ow_type.val)
                         /\ WellFormedObj(ow_type.val.trigger)
                         /\ ow_type.val.trigger.triggerPx = px.val
                         /\ ow_type.val.trigger.isMarket = Get(ot.trigger).isMarket
                         /\ ow_type.val.trigger.tpsl = Get(ot.trigger).tpsl
                    ELSE ~ow_type.ok
            /\ (ot.limit = Undefined /\ ot.trigger = Undefined) =>
                ow_type = Fail(ErrInvalidOrderType)

\* a trigger order whose price arrives as the string "1.50" is re-encoded as "1.5"
C5_Witness ==
    /\ ow_fn = "orderTypeToWire"
    /\ ow_order.order_type.limit = Undefined
    /\ ow_order.order_type.trigger /= Undefined
    /\ Get(ow_order.order_type.trigger).triggerPx = StrVal(<<"1", ".", "5", "0">>)
    /\ Get(ow_order.order_type.trigger).isMarket
    /\ ow_type.ok
    /\ ow_type.val.trigger.triggerPx = <<"1", ".", "5">>
    /\ ow_type.val.trigger.isMarket
    /\ ow_type.val.trigger.tpsl = Get(ow_order.order_type.trigger).tpsl

\* C6: orderToWire leaves the key c out of the wire order when the order has
\* no client order id, and writes the order's cloid unchanged under c otherwise.
C6_CloidKey ==
    (ow_fn = "orderToWire" /\ ow_wire.ok) =>
        IF ow_order.cloid = Undefined
        THEN /\ ~HasKey(ow_wire.val, "c")
             /\ "c" \notin DOMAIN ow_wire.val
        ELSE /\ HasKey(ow_wire.val, "c")
             /\ ow_wire.val.c = Get(ow_order.cloid)

C6_Witness ==
    /\ ow_fn = "orderToWire"
    /\ ow_order.cloid = Undefined
    /\ ow_wire.ok
    /\ "c" \notin DOMAIN ow_wire.val

\* C7: orderToWire returns the keys a, b, p, s, r, t in this order, then c
\* only when a cloid is present, with a the asset index, b is_buy,
\* p floatToWire(limit_px), s floatToWire(sz), r reduce_only and
\* t orderTypeToWire(order_type); the coin is not in the wire order; when a
\* number or the order type fails to encode, no wire order is returned.
C7_OrderToWire ==
    ow_fn = "orderToWire" =>
        LET p == floatToWire(ow_order.limit_px)
            s == floatToWire(ow_order.sz)
            t == orderTypeToWire(ow_order.order_type)
        IN  IF p.ok /\ s.ok /\ t.ok
            THEN /\ ow_wire.ok
                 /\ ow_wire.val.keys =
                        <<"a", "b", "p", "s", "r", "t">>
                            \o (IF ow_order.cloid = Undefined THEN <<>> ELSE <<"c">>)
                 /\ WellFormedObj(ow_wire.val)
                 /\ ow_wire.val.a = ow_asset
                 /\ ow_wire.val.b = ow_order.is_buy
                 /\ ow_wire.val.p = p.val
                 /\ ow_wire.val.s = s.val
                 /\ ow_wire.val.r = ow_order.reduce_only
                 /\ ow_wire.val.t = t.val
                 /\ "coin" \notin DOMAIN ow_wire.val
            ELSE ~ow_wire.ok

\* the scenario: 1 ETH at 2500.12345678, Gtc, asset index 5
C7_Witness ==
    /\ ow_fn = "orderToWire"
    /\ ow_asset = 5
    /\ ow_order = [coin |-> "ETH", is_buy |-> TRUE, sz |-> Fin(FALSE, 1, 0, 0),
                   limit_px |-> Fin(FALSE, 2500, 12345678, 0),
                   order_type |-> [limit |-> Some([tif |-> "Gtc"]), trigger |-> Undefined],
                   reduce_only |-> FALSE, cloid |-> Undefined]
    /\ ow_wire =
         Ok([keys |-> <<"a", "b", "p", "s", "r", "t">>,
             a |-> 5, b |-> TRUE,
             p |-> <<"2", "5", "0", "0", ".", "1", "2", "3", "4", "5", "6", "7", "8">>,
             s |-> <<"1">>, r |-> FALSE,
             t |-> [keys |-> <<"limit">>, limit |-> [tif |-> "Gtc"]]])

-----------------------------------------------------------------------------
\* Claims about the order action builder

\* C8: orderWiresToOrderAction returns the keys type = "order", orders = the
\* given wire orders in the given order, grouping = the given grouping, and
\* builder last; builder is present exactly when one was supplied.
C8_OrderAction ==
    oa_action.ok =>
        LET act == oa_action.val
        IN  /\ act.keys =
                   <<"type", "orders", "grouping">>
                       \o (IF oa_builder = Undefined THEN <<>> ELSE <<"builder">>)
            /\ WellFormedObj(act)
            /\ act.type = "order"
            /\ act.orders = oa_orders
            /\ act.grouping = oa_grouping
            /\ oa_builder /= Undefined => act.builder = Get(oa_builder)

C8_Witness ==
    /\ oa_action.ok
    /\ Len(oa_orders) = 2
    /\ oa_orders[1] /= oa_orders[2]
    /\ oa_builder = Undefined
    /\ oa_action.val.keys = <<"type", "orders", "grouping">>
    /\ oa_action.val.orders = oa_orders

-----------------------------------------------------------------------------
\* Claims about the ExchangeAPI calls

\* C9: the action cancelOrder builds and signs has type "cancel" and one
\* cancels entry per request, in request order, each holding only the asset
\* index resolved for the request's coin and the request's order id.
C9_CancelAction ==
    (ex_op = "cancelOrder" /\ ex_action /= Undefined) =>
        LET action == Get(ex_action)
        IN  /\ action.keys = <<"type", "cancels">>
            /\ WellFormedObj(action)
            /\ action.type = "cancel"
            /\ Len(action.cancels) = Len(ex_reqs)
            /\ \A i \in 1..Len(ex_reqs) :
                /\ action.cancels[i].keys = <<"a", "o">>
                /\ WellFormedObj(action.cancels[i])
                /\ assetMap[ex_reqs[i].coin] /= Undefined
                /\ action.cancels[i].a = Get(assetMap[ex_reqs[i].coin])
                /\ action.cancels[i].o = ex_reqs[i].o
            /\ ex_signed /= Undefined
            /\ Get(ex_signed).action = action
            /\ ex_payload /= Undefined => Get(ex_payload).action = action

C9_Witness ==
    /\ ex_op = "cancelOrder"
    /\ ex_reqs = <<[coin |-> "ETH", o |-> 123], [coin |-> "BTC", o |-> 456]>>
    /\ ex_payload /= Undefined
    /\ Get(ex_payload).action =
         [keys |-> <<"type", "cancels">>, type |-> "cancel",
          cancels |-> <<[keys |-> <<"a", "o">>, a |-> 5, o |-> 123],
                        [keys |-> <<"a", "o">>, a |-> 0, o |-> 456]>>]

\* the asset index each request of the action was built with
AssetsOf(op, action) ==
    CASE op \in CachingOps \cup {"placeOrdersTpSl"} ->
            [i \in 1..Len(action.orders) |-> action.orders[i].a]
      [] op \in CancelOps ->
            [i \in 1..Len(action.cancels) |-> action.cancels[i].a]
      [] op = "cancelOrderByCloid" -> <<action.cancels[1].asset>>
      [] op = "modifyOrder" -> <<action.order.a>>
      [] op \in {"updateLeverage", "updateIsolatedMargin"} -> <<action.asset>>
      [] op = "batchModifyOrders" ->
            [i \in 1..Len(action.modifies) |-> action.modifies[i].order.a]
      [] OTHER -> <<>>

\* C10: getAssetIndex fails with the unknown-asset error exactly when the
\* resolver has no index for the symbol and returns the resolver's index
\* otherwise; a wire order, a cancel entry or an action exists only for coins
\* whose index has been resolved, and carries that index.
C10_AssetResolution ==
    /\ \A i \in 1..Len(ex_reqs) :
        LET symbol == ex_reqs[i].coin
        IN  /\ ex_idx[i] /= Undefined =>
                IF assetMap[symbol] = Undefined
                THEN /\ ~Get(ex_idx[i]).ok
                     /\ Get(ex_idx[i]).err = ErrUnknownAsset
                     /\ Get(ex_idx[i]).symbol = symbol
                     /\ ex_pc = "failed"
                     /\ ~ex_out.ok
                ELSE Get(ex_idx[i]) = Ok(Get(assetMap[symbol]))
            /\ ex_wires[i] /= Undefined =>
                /\ ex_idx[i] /= Undefined
                /\ Get(ex_idx[i]).ok
                /\ Get(ex_wires[i]).a = Get(ex_idx[i]).val
    /\ ex_action /= Undefined =>
        /\ Len(AssetsOf(ex_op, Get(ex_action))) = Len(ex_reqs)
        /\ \A i \in 1..Len(ex_reqs) :
            /\ ex_idx[i] /= Undefined
            /\ Get(ex_idx[i]).ok
            /\ AssetsOf(ex_op, Get(ex_action))[i] = Get(ex_idx[i]).val

\* a batch of two: the first order's coin resolved and its wire built, the
\* second coin unknown, which failed the call before any action was built
C10_Witness ==
    /\ ex_op = "placeOrder"
    /\ Len(ex_reqs) = 2
    /\ assetMap[ex_reqs[1].coin] = Some(5)
    /\ assetMap[ex_reqs[2].coin] = Undefined
    /\ ex_wires[1] /= Undefined
    /\ Get(ex_wires[1]).a = 5
    /\ ex_idx[2] = Some(UnknownAsset(ex_reqs[2].coin))
    /\ ex_out = UnknownAsset(ex_reqs[2].coin)
    /\ ex_pc = "failed"
    /\ ex_action = Undefined


\* C11: within one placeOrder, getTxObjectPlaceOrder, createOrderTypedData or
\* placeOrdersTpSl call, the external resolver
\* is invoked at most once per distinct coin symbol, also when the same coin
\* appears in several orders of the batch
C11_MemoizedPerBatch ==
    ex_op \in CachingOps \cup {"placeOrdersTpSl"}
        => \A coin \in Coins : ex_calls[coin] <= 1
-----------------------------------------------------------------------------
\* Claims about the action digest and the typed data

\* the buffer a digest was computed from
HashedData(digest) == digest.keccak256

\* the 64-bit value that eight bytes denote when read most significant first
BigEndianWords(bytes) ==
    [k \in 1..4 |-> bytes[2 * k - 1].byte * 256 + bytes[2 * k].byte]

IsAddress(vaultAddress) ==
    /\ addressToBytes(vaultAddress).ok
    /\ Len(addressToBytes(vaultAddress).val) = AddressLength

HashBufferLayout(data, serialized, vaultAddress, nonce) ==
    /\ SubSeq(data, 1, Len(serialized)) = serialized
    /\ \A i \in 1..8 : data[Len(serialized) + i].byte \in 0..255
    /\ BigEndianWords(SubSeq(data, Len(serialized) + 1, Len(serialized) + 8)) = nonce
    /\ IF vaultAddress = Null
       THEN /\ data[Len(serialized) + 9] = B(0)
            /\ Len(data) = Len(serialized) + 9
       ELSE /\ data[Len(serialized) + 9] = B(1)
            /\ Len(data) = Len(serialized) + 29
            /\ SubSeq(data, Len(serialized) + 10, Len(data))
                    = addressToBytes(vaultAddress).val

\* C12: the buffer actionHash hashes is the serialized action, the nonce as 8
\* bytes big-endian, a flag byte (0 without vault, 1 with) and then the 20
\* address bytes only with a vault; its length is serializedLength + 9 or + 29
C12_HashBuffer ==
    (sg_fn = "actionHash" /\ (sg_vault = Null \/ IsAddress(sg_vault)))
        => /\ sg_out.ok
           /\ HashBufferLayout(HashedData(sg_out.val), encode(sg_action), sg_vault,
                               sg_nonce)

C12_Witness ==
    /\ sg_fn = "actionHash"
    /\ sg_vault = VaultB
    /\ sg_nonce = <<0, 397, 50066, 4660>>
    /\ sg_action = SampleCancelAction
    /\ sg_out.ok
    /\ Len(HashedData(sg_out.val)) = Len(encode(sg_action)) + 29
    /\ HashedData(sg_out.val)[Len(encode(sg_action)) + 29] = B(18)

\* the inputs of actionHash that are a nonce in 0..2^64-1 and a vault address
\* or none
ValidHashInputs ==
    {<<v, n>> : v \in {w \in HashVaults : w = Null \/ IsAddress(w)}, n \in HashNonces}

\* the one call the specification makes returns what actionHash gives for its
\* arguments and touches nothing else
HashCallIsPure ==
    (sg_fn = "none" /\ sg_fn' = "actionHash")
        => /\ sg_out' = actionHash(sg_action, sg_vault, sg_nonce)
           /\ UNCHANGED <<sg_action, sg_vault, sg_nonce, notSgVars>>

\* for the serialized action at hand, different (vault, nonce) give different
\* buffers
HashBuffersDiffer ==
    (sg_fn = "actionHash" /\ <<sg_vault, sg_nonce>> \in ValidHashInputs)
        => /\ sg_out = actionHash(sg_action, sg_vault, sg_nonce)
           /\ \A in \in ValidHashInputs :
                in /= <<sg_vault, sg_nonce>>
                    => HashedData(actionHash(sg_action, in[1], in[2]).val)
                            /= HashedData(sg_out.val)

\* C13: actionHash is a pure function of (action, vaultAddress, nonce), and for
\* a fixed serialized action two inputs that differ in the nonce, in the
\* presence of a vault address or in the vault address give different buffers
C13_HashPureInjective == [][HashCallIsPure]_vars /\ []HashBuffersDiffer

C13_Witness ==
    /\ sg_fn = "actionHash"
    /\ sg_vault = VaultA
    /\ sg_nonce = <<1, 0, 0, 0>>
    /\ sg_out.ok
    /\ HashedData(sg_out.val)
            /= HashedData(actionHash(sg_action, VaultB, sg_nonce).val)
    /\ HashedData(sg_out.val)
            /= HashedData(actionHash(sg_action, VaultA, Zero64).val)

\* the (domain, types, message) the wallet was called with for an L1 action
L1SignerCalls ==
    IF ex_op \in L1SignOps /\ ex_sig /= Undefined
    THEN {Get(ex_sig).calls[i] : i \in 1..Len(Get(ex_sig).calls)} ELSE {}

\* the typed data a method returned for an L1 action, with the action, vault
\* address and nonce returned next to it
L1ReturnedData ==
    IF ex_pc /= "returned" THEN {}
    ELSE IF ex_op \in TypedDataOps \cup {"createL1ActionTypedDataWithHash"}
    THEN {ex_out.val}
    ELSE IF ex_op = "getTxObjectPlaceOrder"
    THEN {[domain |-> ex_out.val.signature.domain, types |-> ex_out.val.signature.types,
           primaryType |-> ex_out.val.signature.primaryType,
           message |-> ex_out.val.signature.message,
           action |-> ex_out.val.action, nonce |-> ex_out.val.nonce,
           vaultAddress |-> ex_out.val.vaultAddress]}
    ELSE {}

IsPhantomDomain(domain) ==
    /\ KeySet(domain) = {"chainId", "name", "verifyingContract", "version"}
    /\ WellFormedObj(domain)
    /\ domain.chainId = 1337
    /\ domain.name = "Exchange"
    /\ domain.version = "1"
    /\ domain.verifyingContract = "0x0000000000000000000000000000000000000000"

IsAgentSchema(types) ==
    /\ types.keys = <<"Agent">>
    /\ WellFormedObj(types)
    /\ Len(types.Agent) = 2
    /\ types.Agent[1].name = "source" /\ types.Agent[1].type = "string"
    /\ types.Agent[2].name = "connectionId" /\ types.Agent[2].type = "bytes32"

NetworkMarker == IF api.IS_MAINNET THEN "a" ELSE "b"

\* C14: every typed-data structure built for an L1 action has the phantom
\* domain (chainId 1337, name "Exchange", version "1", zero verifying
\* contract), primaryType "Agent" with schema [source:string,
\* connectionId:bytes32] and message.source "a" on mainnet, "b" on testnet
C14_PhantomAgentData ==
    /\ \A call \in L1SignerCalls :
        /\ Len(call) = 3
        /\ IsPhantomDomain(call[1])
        /\ IsAgentSchema(call[2])
        /\ call[3].source = NetworkMarker
    /\ \A data \in L1ReturnedData :
        /\ IsPhantomDomain(data.domain)
        /\ IsAgentSchema(data.types)
        /\ data.primaryType = "Agent"
        /\ data.message.source = NetworkMarker

\* on testnet: a cancel was signed, its typed data handed to the wallet
C14_Witness ==
    /\ ~api.IS_MAINNET
    /\ ex_op = "cancelOrder"
    /\ ex_payload /= Undefined
    /\ \E call \in L1SignerCalls : call[3].source = "b" /\ IsPhantomDomain(call[1])

\* C15: in every phantom-agent typed-data structure produced for an L1 action
\* message.connectionId is actionHash(action, vaultAddress, nonce) of the
\* action, vault address and nonce that accompany the structure
C15_ConnectionIdIsDigest ==
    /\ \A call \in L1SignerCalls :
        call[3].connectionId
            = actionHash(Get(ex_signed).action, Get(ex_signed).activePool,
                         Get(ex_signed).nonce).val
    /\ \A data \in L1ReturnedData :
        data.message.connectionId
            = actionHash(data.action, data.vaultAddress, data.nonce).val

\* the typed-data structures a call has produced, each with the action it
\* stands for: what the wallet was called with, and what a method returned for
\* an external signer
SignedStructures ==
    IF ex_sig = Undefined \/ ex_signed = Undefined THEN {}
    ELSE {[domain |-> Get(ex_sig).calls[i][1], types |-> Get(ex_sig).calls[i][2],
           message |-> Get(ex_sig).calls[i][3], action |-> Get(ex_signed).action] :
            i \in 1..Len(Get(ex_sig).calls)}

ReturnedStructures ==
    IF ex_pc /= "returned" THEN {}
    ELSE IF ex_op \in TypedDataOps \cup {"createL1ActionTypedDataWithHash",
                        "createTransferTypedData", "createAgentApprovalTypedData"}
    THEN {[domain |-> ex_out.val.domain, types |-> ex_out.val.types,
           message |-> ex_out.val.message, action |-> ex_out.val.action]}
    ELSE IF ex_op = "getTxObjectPlaceOrder"
    THEN {[domain |-> ex_out.val.signature.domain, types |-> ex_out.val.signature.types,
           message |-> ex_out.val.signature.message, action |-> ex_out.val.action]}
    ELSE {}

ProducedStructures == SignedStructures \cup ReturnedStructures

\* the kind of an action is its type discriminator
KindOf(action) == IF "type" \in DOMAIN action THEN action.type ELSE "none"

L1Kinds ==
    {"order", ExchangeType.CANCEL, ExchangeType.CANCEL_BY_CLOID, ExchangeType.MODIFY,
     ExchangeType.BATCH_MODIFY, ExchangeType.UPDATE_LEVERAGE,
     ExchangeType.UPDATE_ISOLATED_MARGIN, ExchangeType.SCHEDULE_CANCEL,
     ExchangeType.VAULT_TRANSFER, ExchangeType.SET_REFERRER}

UserSignedKinds ==
    {ExchangeType.USD_SEND, ExchangeType.SPOT_SEND, ExchangeType.WITHDRAW,
     ExchangeType.USD_CLASS_TRANSFER}

IsUserSignedDomain(domain) ==
    /\ KeySet(domain) = {"name", "version", "chainId", "verifyingContract"}
    /\ WellFormedObj(domain)
    /\ domain.name = "HyperliquidSignTransaction"
    /\ domain.version = "1"
    /\ domain.verifyingContract = "0x0000000000000000000000000000000000000000"

\* C16: an order, cancel, cancel-by-cloid, modify, batch-modify,
\* update-leverage, update-isolated-margin, schedule-cancel, vault-transfer or
\* set-referrer action only ever stands under the phantom-agent domain, with
\* its digest in the message; a usd-send, spot-send, withdraw or
\* usd-class-transfer action only ever under the user-signed domain, with the
\* action as the message
C16_DomainByKind ==
    \A s \in ProducedStructures :
        /\ KindOf(s.action) \in L1Kinds
            => /\ IsPhantomDomain(s.domain)
               /\ KeySet(s.message) = {"source", "connectionId"}
        /\ KindOf(s.action) \in UserSignedKinds
            => /\ IsUserSignedDomain(s.domain)
               /\ s.message = s.action

TransferOps == UserSignOps \cup {"createTransferTypedData"}

\* the stamps of the network the client is on
StampedFor(action, isMainnet) ==
    /\ action.hyperliquidChain = (IF isMainnet THEN "Mainnet" ELSE "Testnet")
    /\ action.signatureChainId
        = (IF isMainnet THEN <<"0", "x", "a", "4", "b", "1">>
           ELSE <<"0", "x", "6", "6", "e", "e", "e">>)

\* C17: in usdTransfer, spotTransfer, initiateWithdrawal,
\* transferBetweenSpotAndPerp and createTransferTypedData the action carries
\* hyperliquidChain "Mainnet" and signatureChainId "0xa4b1" on mainnet,
\* "Testnet" and "0x66eee" otherwise; the typed data has the domain
\* HyperliquidSignTransaction, version "1", zero verifying contract, chainId
\* 42161 on mainnet and 421614 on testnet, the number signatureChainId
\* denotes, and the action as its message; the submitted action is that action
C17_TransferStamps ==
    ex_op \in TransferOps
        => /\ \A s \in ProducedStructures :
                /\ StampedFor(s.action, api.IS_MAINNET)
                /\ IsUserSignedDomain(s.domain)
                /\ s.domain.chainId = (IF api.IS_MAINNET THEN 42161 ELSE 421614)
                /\ s.domain.chainId = hexToNumber(s.action.signatureChainId)
                /\ s.message = s.action
           /\ ex_payload /= Undefined
                => /\ StampedFor(Get(ex_payload).action, api.IS_MAINNET)
                   /\ \E s \in SignedStructures : s.message = Get(ex_payload).action

\* on testnet a usd transfer was signed and its payload assembled
C17_Witness ==
    /\ ~api.IS_MAINNET
    /\ ex_op = "usdTransfer"
    /\ ex_payload /= Undefined
    /\ Get(ex_payload).action.hyperliquidChain = "Testnet"
    /\ \E s \in SignedStructures : s.domain.chainId = 421614 /\ s.message = s.action

\* the ordered field list of the one type of a user-signed schema
SchemaOf(types) == types[types.keys[1]]

HasField(schema, name, type) ==
    \E i \in 1..Len(schema) : schema[i] = Field(name, type)

\* the action carries field, the signed schema lists it as uint64 and the
\* nonce of the payload is its value
StampIsNonce(field) ==
    /\ field \in KeySet(Get(ex_signed).action)
    /\ \A s \in SignedStructures :
        /\ field \in KeySet(s.message)
        /\ HasField(SchemaOf(s.types), field, "uint64")
    /\ ex_payload /= Undefined
        => /\ field \in KeySet(Get(ex_payload).action)
           /\ Get(ex_payload).nonce = Get(ex_payload).action[field]

\* C18 as stated: each usd-send, spot-send, withdraw and usd-class-transfer
\* action carries a time field, the signed schema lists it and the nonce of the
\* submitted payload is that field
C18_TimeIsNonce ==
    (ex_op \in UserSignOps /\ ex_signed /= Undefined) => StampIsNonce("time")

\* the field that carries the clock reading: nonce in a usd-class-transfer,
\* time in the other three
StampField(op) == IF op = "transferBetweenSpotAndPerp" THEN "nonce" ELSE "time"

\* C18 amended: a usd-send, spot-send and withdraw action carries a time field
\* and a usd-class-transfer action a nonce field instead; that field is in the
\* signed schema as a uint64 and the nonce of the submitted payload equals it
C18_StampIsNonce ==
    (ex_op \in UserSignOps /\ ex_signed /= Undefined)
        => /\ StampIsNonce(StampField(ex_op))
           /\ ex_op = "transferBetweenSpotAndPerp"
                => "time" \notin KeySet(Get(ex_signed).action)

\* a usd class transfer made at time 1 was signed and its payload assembled
C18_Witness ==
    /\ ex_op = "transferBetweenSpotAndPerp"
    /\ ex_payload /= Undefined
    /\ SignedStructures /= {}
    /\ Get(ex_payload).nonce = <<0, 0, 0, 1>>
    /\ Get(ex_payload).action.nonce = <<0, 0, 0, 1>>
    /\ "time" \notin KeySet(Get(ex_payload).action)

\* the number of parameters of the wallet's signTypedData; -1 when the wallet
\* is no object or has no such function
ArityOf(wallet) ==
    IF wallet.isObject /\ wallet.signTypedData /= Undefined
    THEN Get(wallet.signTypedData) ELSE -1

\* the one call with args was made and its answer went through splitSig
CalledOnceWith(args) ==
    /\ sg_calls = <<args>>
    /\ CASE sg_wallet.does = "signs" ->
                /\ sg_out = splitSig(SignatureHex(args))
                /\ sg_out.ok
                /\ sg_out.val.keys = <<"r", "s", "v">>
         [] sg_wallet.does = "returnsOther" ->
                sg_out = splitSig(NotASignature) /\ ~sg_out.ok
         [] OTHER -> sg_out = Fail(ErrSignerRejected)

IsTypedDataObject(obj, data) ==
    /\ KeySet(obj) = {"domain", "types", "primaryType", "message"}
    /\ WellFormedObj(obj)
    /\ obj.domain = data.domain
    /\ obj.types = data.types
    /\ obj.primaryType = data.primaryType
    /\ obj.message = data.message

\* C19: signInner calls a signTypedData of one parameter once, with the single
\* object {domain, types, primaryType, message}, and one of three parameters
\* once, with (domain, types, message); the signature that comes back goes
\* through splitSig; for any other wallet it fails with the unsupported-wallet
\* error and calls nothing
C19_SignerDispatch ==
    sg_fn = "signInner"
        => \E data \in {getTxObject(sg_action, sg_vault, sg_nonce, sg_mainnet).val} :
            CASE ArityOf(sg_wallet) = 1 ->
                    /\ Len(sg_calls) = 1
                    /\ Len(sg_calls[1]) = 1
                    /\ IsTypedDataObject(sg_calls[1][1], data)
                    /\ CalledOnceWith(sg_calls[1])
              [] ArityOf(sg_wallet) = 3 ->
                    CalledOnceWith(<<data.domain, data.types, data.message>>)
              [] OTHER ->
                    /\ sg_calls = <<>>
                    /\ sg_out = Fail(ErrUnsupportedWallet)

\* a wallet whose signTypedData takes one argument was called and signed
C19_Witness ==
    /\ sg_fn = "signInner"
    /\ sg_wallet = WalletOf(TRUE, Some(1), "signs")
    /\ Len(sg_calls) = 1
    /\ sg_calls[1][1].primaryType = "Agent"
    /\ sg_out.ok
    /\ sg_out.val.r = <<"r", SignatureHex(sg_calls[1])>>

SubmitOps == {"submitSignedAction", "submitSignedActionWithStringSignature"}

\* the requests the call has handed to makeRequest
RequestsIssued == ex_payload

\* C20: submitSignedAction given a string signature submits
\* splitSig(signature), which is what signInner returns for a wallet that
\* answered with that string, and given a split {r, s, v} submits it
\* unchanged; the payload's action, nonce and vaultAddress are its arguments
\* (vaultAddress null when left out) and one request is issued. A string that
\* splitSig rejects fails the call before any request
C20_OneNormalization ==
    ex_op \in SubmitOps
        => IF IsString(ex_extra.signature) /\ ~splitSig(ex_extra.signature).ok
           THEN /\ RequestsIssued = <<>>
                /\ ex_pc = "failed"
                /\ ex_out = splitSig(ex_extra.signature)
           ELSE /\ Len(RequestsIssued) = 1
                /\ ex_pc \in {"sending", "returned", "failed"}
                /\ ex_pc = "failed" => ex_out = Fail(ErrRequest)
                /\ \E payload \in {RequestsIssued[1]} :
                    /\ KeySet(payload) = {"action", "nonce", "signature", "vaultAddress"}
                    /\ WellFormedObj(payload)
                    /\ payload.action = ex_extra.action
                    /\ payload.nonce = ex_extra.nonce
                    /\ payload.vaultAddress
                        = (IF ex_extra.vaultAddress = Undefined
                           THEN Null ELSE Get(ex_extra.vaultAddress))
                    /\ IF IsString(ex_extra.signature)
                       THEN /\ payload.signature = splitSig(ex_extra.signature).val
                            /\ ex_extra.signature = SubmittedHex
                                => payload.signature
                                    = signInner(EthersWallet, SubmittedData).val
                       ELSE payload.signature = ex_extra.signature

\* the string a wallet returned was submitted split, and the request returned
C20_Witness ==
    /\ ex_op = "submitSignedAction"
    /\ ex_extra.signature = SubmittedHex
    /\ ex_pc = "returned"
    /\ Len(RequestsIssued) = 1
    /\ RequestsIssued[1].signature.keys = <<"r", "s", "v">>
    /\ RequestsIssued[1].signature = signInner(EthersWallet, SubmittedData).val
    /\ RequestsIssued[1].vaultAddress = Null

\* wallets that sign, of either shape
ClientWallet == WalletOf(TRUE, Some(1), "signs")
SignerWallet == WalletOf(TRUE, Some(3), "signs")

SameTypedData(built, handed) ==
    /\ built.domain = handed.domain
    /\ built.types = handed.types
    /\ built.primaryType = handed.primaryType
    /\ built.message = handed.message

\* built is what the signing function hands to a wallet of either shape, and
\* a builder that throws does so where the signing function does, before any
\* wallet call
BuiltAsSigned(built, byClient, bySigner) ==
    IF built.ok
    THEN /\ Len(byClient.calls) = 1
         /\ SameTypedData(built.val, byClient.calls[1][1])
         /\ bySigner.calls
                = <<<<built.val.domain, built.val.types, built.val.message>>>>
    ELSE /\ byClient.calls = <<>>
         /\ ~byClient.ok
         /\ byClient.err = built.err

\* the signing function a builder corresponds to
UserKindOf(fn) ==
    CASE fn = "mpcSigning.signUsdTransferAction" -> "signUsdTransferAction"
      [] fn = "mpcSigning.signWithdrawFromBridgeAction" -> "signWithdrawFromBridgeAction"
      [] OTHER -> "signAgent"

\* C22: getTxObject, createL1ActionTypedData, createAgentTypedData and the
\* builders of mpcSigning call no signer, and for the same action, vault
\* address, nonce and network they return the domain, types, primaryType and
\* message that signL1Action and signUserSignedAction hand to the signer
C22_BuildersMatchSigners ==
    /\ sg_fn \in {"getTxObject", "createL1ActionTypedData"}
        => /\ sg_calls = <<>>
           /\ BuiltAsSigned(sg_out,
                signL1Action(ClientWallet, sg_action, sg_vault, sg_nonce, sg_mainnet),
                signL1Action(SignerWallet, sg_action, sg_vault, sg_nonce, sg_mainnet))
    /\ sg_fn \in {MpcName(kind) : kind \in UserSignKinds} \cup {"createAgentTypedData"}
        => /\ sg_calls = <<>>
           /\ sg_out.ok
           /\ BuiltAsSigned(sg_out,
                signByKind(UserKindOf(sg_fn), ClientWallet, sg_action, sg_mainnet),
                signByKind(UserKindOf(sg_fn), SignerWallet, sg_action, sg_mainnet))

\* createAgentTypedData was called on mainnet with the approval built on
\* testnet: its message is stamped as signAgent stamps it
C22_Witness ==
    /\ sg_fn = "createAgentTypedData"
    /\ sg_action = SampleApproval
    /\ sg_mainnet
    /\ sg_out.ok
    /\ sg_out.val.message.hyperliquidChain = "Mainnet"
    /\ sg_out.val.domain.chainId = 421614
    /\ signAgent(ClientWallet, sg_action, sg_mainnet).calls[1][1].message
            = sg_out.val.message
-----------------------------------------------------------------------------
\* Claims about the course of an ExchangeAPI call

\* the methods that sign and submit
SigningOps == L1SignOps \cup UserSignOps

\* the errors of asset resolution, numeric encoding and order-type mapping
BuildErrors == {ErrUnknownAsset, ErrRounding, ErrInvalidOrderType, ErrNonExistentAssets}

\* the errors of hashing and signing
SignErrors ==
    {ErrInvalidBytesLike, ErrOffsetOutOfBounds, ErrUnsupportedWallet,
     ErrInvalidSignature, ErrSignerRejected}

\* building the entry of request i with asset index a fails with err
EncodingFails(i, a, err) ==
    IF ex_op = "batchModifyOrders" /\ a = 0 THEN err = ErrNonExistentAssets
    ELSE /\ ex_op \in {"placeOrder", "placeOrdersTpSl", "modifyOrder", "batchModifyOrders"}
         /\ \E wire \in {orderToWire(IF ex_op = "batchModifyOrders"
                                      THEN ex_reqs[i].order ELSE ex_reqs[i], a)} :
                ~wire.ok /\ wire.err = err

\* a request exists only with the signature the wallet gave in its one call;
\* a call that failed without a request failed with the error of the step
\* that failed, before anything later was made
NoPartialFailure ==
    ex_op \in SigningOps
        => /\ ex_payload /= Undefined
                => /\ ex_sig /= Undefined
                   /\ Get(ex_sig).ok
                   /\ Len(Get(ex_sig).calls) = 1
                   /\ Get(ex_payload).signature = Get(ex_sig).val
                   /\ ex_pc \in {"sending", "returned", "failed"}
                   /\ ex_pc = "failed" => ex_out = Fail(ErrRequest)
           /\ (ex_pc = "failed" /\ ex_payload = Undefined)
                => /\ ~ex_out.ok
                   /\ IF ex_sig /= Undefined
                      THEN /\ ~Get(ex_sig).ok
                           /\ ex_out = Fail(Get(ex_sig).err)
                           /\ ex_out.err \in SignErrors
                      ELSE /\ ex_out.err \in BuildErrors
                           /\ ex_action = Undefined
                           /\ ex_signed = Undefined
                           /\ ex_out.err = ErrUnknownAsset
                                => \E i \in 1..Len(ex_reqs) :
                                        assetMap[ex_reqs[i].coin] = Undefined
                           /\ ex_out.err /= ErrUnknownAsset
                                => \E i \in 1..Len(ex_reqs) :
                                    /\ assetMap[ex_reqs[i].coin] /= Undefined
                                    /\ EncodingFails(i, Get(assetMap[ex_reqs[i].coin]),
                                                     ex_out.err)
           /\ (ex_pc \in {"resolving", "signing"}) => ex_payload = Undefined

\* the request is handed over once, when the signing function has returned;
\* a settled call does nothing more
RequestOnce ==
    /\ ex_payload' /= ex_payload
        => /\ ex_payload = Undefined
           /\ ex_pc' = "sending"
           /\ ex_op \in SigningOps => ex_pc = "signing"
    /\ ex_pc \in {"failed", "returned"}
        => UNCHANGED <<ex_pc, ex_out, ex_payload, ex_sig, ex_signed, ex_action>>

\* C21: in every signing method the request is issued at most once and only
\* after the signature has been produced; when asset resolution, numeric
\* encoding, order-type mapping, hashing or signing fails the call rejects
\* with that step's error and no request is issued, and nothing is retried
C21_NoPartialFailure == []NoPartialFailure /\ [][RequestOnce]_vars

\* a batch of two whose second order cannot be encoded: the call failed with
\* the rounding error, nothing was signed and nothing sent
C21_Witness ==
    /\ ex_op = "placeOrder"
    /\ Len(ex_reqs) = 2
    /\ ex_wires[1] /= Undefined
    /\ ex_pc = "failed"
    /\ ex_out = Fail(ErrRounding)
    /\ ex_sig = Undefined
    /\ ex_payload = Undefined

\* every coin of the call has an index in the symbol table
AllResolve == \A i \in 1..Len(ex_reqs) : assetMap[ex_reqs[i].coin] /= Undefined

\* C28: batchModifyOrders builds one modify entry {oid, wire order} per
\* input, in input order, for every order whose coin resolves to an integer
\* asset index, index 0 included; apart from an order that cannot be encoded
\* it fails only when some coin does not resolve
C28_BatchModifyEntries ==
    ex_op = "batchModifyOrders"
        => /\ ex_action /= Undefined
                => /\ Get(ex_action).keys = <<"type", "modifies">>
                   /\ Len(Get(ex_action).modifies) = Len(ex_reqs)
                   /\ \A i \in 1..Len(ex_reqs) :
                        /\ Get(ex_action).modifies[i].keys = <<"oid", "order">>
                        /\ Get(ex_action).modifies[i].oid = ex_reqs[i].oid
                        /\ Ok(Get(ex_action).modifies[i].order)
                            = orderToWire(ex_reqs[i].order,
                                          Get(assetMap[ex_reqs[i].coin]))
           /\ (ex_pc = "failed" /\ ex_action = Undefined)
                => \/ ~AllResolve
                   \/ \E i \in 1..Len(ex_reqs) :
                        /\ assetMap[ex_reqs[i].coin] /= Undefined
                        /\ ex_out = orderToWire(ex_reqs[i].order,
                                                Get(assetMap[ex_reqs[i].coin]))

\* the vault address a payload names; none when it has no such property
PayloadVault(payload) ==
    IF "vaultAddress" \in KeySet(payload) THEN payload.vaultAddress ELSE Null

\* C29: the action, nonce and vault address of the submitted payload are the
\* values the signature was computed over: for an L1 action the signed
\* connectionId is the digest of exactly those three, for a user-signed
\* action the signed message is the payload's action, whose time or nonce
\* field is the payload's nonce
C29_PayloadIsSigned ==
    (ex_op \in SigningOps /\ ex_payload /= Undefined)
        => \E payload \in {Get(ex_payload)} :
            /\ payload.action = Get(ex_signed).action
            /\ \A s \in SignedStructures :
                IF ex_op \in UserSignOps
                THEN /\ s.message = payload.action
                     /\ payload.nonce = payload.action[StampField(ex_op)]
                ELSE /\ payload.nonce = Get(ex_signed).nonce
                     /\ PayloadVault(payload) = Get(ex_signed).activePool
                     /\ Ok(s.message.connectionId)
                            = actionHash(payload.action, PayloadVault(payload),
                                         payload.nonce)

\* C30: whatever the order in which the lookups of a batch complete, the
\* action placeOrder builds has as many wire orders as the batch has orders
\* and its i-th wire order is built from the i-th order with the index of that
\* order's own coin; a request without an orders field gives one wire order
C30_BatchOrderKept ==
    (ex_op = "placeOrder" /\ ex_action /= Undefined)
        => /\ Len(Get(ex_action).orders) = Len(ex_reqs)
           /\ ~ex_extra.hasOrders => Len(Get(ex_action).orders) = 1
           /\ \A i \in 1..Len(ex_reqs) :
                /\ assetMap[ex_reqs[i].coin] /= Undefined
                /\ Ok(Get(ex_action).orders[i])
                    = orderToWire(ex_reqs[i], Get(assetMap[ex_reqs[i].coin]))

\* a batch of two orders for two coins was built and its payload assembled
C30_Witness ==
    /\ ex_op = "placeOrder"
    /\ ex_extra.hasOrders
    /\ Len(ex_reqs) = 2
    /\ ex_reqs[1].coin = "ETH" /\ ex_reqs[2].coin = "BTC"
    /\ ex_payload /= Undefined
    /\ Get(ex_payload).action.orders[1].a = 5
    /\ Get(ex_payload).action.orders[2].a = 0
    /\ Get(ex_payload).action.orders[1].s /= Get(ex_payload).action.orders[2].s

\* the action variant each method builds
VariantOf(op) ==
    CASE op \in CachingOps \cup {"placeOrdersTpSl"} -> "order"
      [] op \in CancelOps -> "cancel"
      [] op \in {"usdTransfer", "createTransferTypedData"} -> "usdSend"
      [] op = "createAgentApprovalTypedData" -> "approveAgent"
      [] OTHER -> op

BuildingOps ==
    BatchOps \cup SingleOps \cup UserSignOps
    \cup {"batchModifyOrders", "scheduleCancel", "vaultTransfer", "setReferrer",
          "createTransferTypedData", "createAgentApprovalTypedData"}

\* arguments to build one action of every method with
SampleArgs ==
    [destination |-> VaultB, amount |-> 1, token |-> "PURR", usdc |-> 1,
     toPerp |-> TRUE, time |-> Null, vaultAddress |-> VaultA, isDeposit |-> TRUE,
     usd |-> 1, code |-> "REF1", agentAddress |-> VaultA, agentName |-> "agent",
     grouping |-> "na", builder |-> Undefined, oid |-> 123, leverageMode |-> "cross",
     leverage |-> 1, isBuy |-> TRUE, ntli |-> 1]

\* the discriminator of the action a method builds
DiscriminatorOf(op) ==
    CASE op \in BatchOps \cup {"batchModifyOrders"} ->
            ActionOf(op, <<>>, SampleArgs, <<>>, <<>>).val.type
      [] op = "cancelOrderByCloid" ->
            ActionOf(op, <<[coin |-> "ETH", cloid |-> "0x1234"]>>, SampleArgs,
                     <<Some(Ok(5))>>, <<Undefined>>).val.type
      [] op = "modifyOrder" ->
            CHOOSE t \in {ActionOf(op, <<o>>, SampleArgs, <<Some(Ok(5))>>,
                                   <<Undefined>>).val.type : o \in SampleOrders} : TRUE
      [] op \in {"updateLeverage", "updateIsolatedMargin"} ->
            ActionOf(op, <<[coin |-> "ETH"]>>, SampleArgs, <<Some(Ok(5))>>,
                     <<Undefined>>).val.type
      [] OTHER -> DirectAction(op, SampleArgs, TRUE, Zero64).type

\* C24: every action a method of ExchangeAPI builds carries a type
\* discriminator, and no method that builds another variant uses the same
\* one; the agent approval of createAgentApprovalTypedData in particular does
\* not carry the discriminator of set-referrer
C24_OwnDiscriminator ==
    (ex_op \in BuildingOps /\ ex_action /= Undefined)
        => /\ "type" \in KeySet(Get(ex_action))
           /\ \A other \in BuildingOps :
                VariantOf(other) /= VariantOf(ex_op)
                    => DiscriminatorOf(other) /= Get(ex_action).type
-----------------------------------------------------------------------------
\* Claims about the custom operations

\* the info API answered the call
Answered(fn) == cu_fn = fn /\ cu_info.ok

Count(seq, v) == Cardinality({i \in DOMAIN seq : seq[i] = v})

SameEntries(s, t) ==
    /\ Len(s) = Len(t)
    /\ \A i \in DOMAIN s : Count(s, s[i]) = Count(t, s[i])

\* the open orders whose converted coin is the symbol, every one when no symbol
\* is given, as {coin, order id} requests
RequestsFor(symbol) ==
    LET Wanted(order) == symbol = Undefined \/ cu_convert[order.coin] = Get(symbol)
        wanted == SelectSeq(cu_info.openOrders, Wanted)
    IN [i \in 1..Len(wanted) |-> [coin |-> cu_convert[wanted[i].coin], o |-> wanted[i].oid]]

CancelsExactly(requests) ==
    IF requests = <<>>
    THEN /\ ~cu_out.ok
         /\ cu_out.err = ErrNoOrdersToCancel
         /\ cu_calls = <<>>
    ELSE /\ Len(cu_calls) = 1
         /\ cu_calls[1].method = "cancelOrder"
         /\ SameEntries(cu_calls[1].request, requests)

\* C26: cancelAllOrders(symbol) issues exactly one cancelOrder call with one
\* {coin, order id} request for every open order whose converted coin equals
\* symbol (every open order when no symbol is given) and for no other; when
\* there is none it fails with 'No orders to cancel' and cancelOrder is not called
C26_CancelAllOrders ==
    Answered("cancelAllOrders") => CancelsExactly(RequestsFor(cu_args.symbol))

MatchingPositions ==
    {i \in 1..Len(cu_info.assetPositions) :
        cu_info.assetPositions[i].position.coin = cu_convert[cu_args.symbol]}

ClosesPosition(item) ==
    /\ Len(cu_calls) = 1
    /\ cu_calls[1].method = "placeOrder"
    /\ \E order \in {cu_calls[1].request} :
        /\ order.coin = cu_convert[cu_args.symbol]
        /\ order.reduce_only
        /\ order.order_type = [limit |-> [tif |-> "Ioc"]]
        /\ order.is_buy = (item.szi < 0)
        /\ order.sz = IF cu_args.size = Undefined THEN Abs(item.szi)
                      ELSE Get(cu_args.size)
        /\ order.cloid /= Undefined => order.cloid = cu_args.cloid

\* C27: marketClose places exactly one order, for the first position whose coin
\* is the converted symbol: reduce-only, limit IoC, buying exactly when the
\* position size is negative, of the given size or of the absolute position
\* size when none is given, with the cloid only when one is provided; when no
\* position matches it fails with 'No position found' and places no order
C27_MarketClose ==
    Answered("marketClose") =>
        IF MatchingPositions = {}
        THEN /\ ~cu_out.ok
             /\ cu_out.err.message = "No position found for"
             /\ cu_calls = <<>>
        ELSE \E i \in MatchingPositions :
                /\ \A j \in MatchingPositions : i <= j
                /\ ClosesPosition(cu_info.assetPositions[i].position)
-----------------------------------------------------------------------------
\* Claims about two calls on one ExchangeAPI object

\* the calls that have begun
Calls == {c \in {Running, cc_other} : c.op /= "none"}

NonceOf(c) == Get(c.signed).nonce

\* a step of the running call that hands a nonce to the signing function hands
\* it the value the clock shows at that step
NonceRead ==
    (cc_id' = cc_id /\ ex_signed' /= ex_signed) => Get(ex_signed').nonce = clock

\* a call whose signature is there is submitted with the nonce it was signed
\* with, whatever nonce the other call has
SubmittedWithOwnNonce ==
    \A c \in Calls :
        (c.sig /= Undefined /\ Get(c.sig).ok)
            => /\ c.payload /= Undefined
               /\ Get(c.payload).nonce = NonceOf(c)
               /\ c.pc \in {"sending", "returned", "failed"}
               /\ c.pc = "failed" => c.out = Fail(ErrRequest)

\* C23: the nonce of an operation is the clock value read during the call and
\* nothing guards against duplicates: two operations that read the same value
\* are both signed and both submitted with that nonce
C23_NonceIsClockReading == []SubmittedWithOwnNonce /\ [][NonceRead]_vars

\* two calls read the same clock value and both are submitted with it
C23_Witness ==
    /\ ex_payload /= Undefined
    /\ cc_other.payload /= Undefined
    /\ Get(ex_payload).nonce = Get(cc_other.payload).nonce
    /\ ex_pc = "returned"
    /\ cc_other.pc = "returned"

\* what a call computes from its own arguments, the resolver's answers and its
\* clock reading
AloneIdx(c, i) == getAssetIndex(c.reqs[i].coin, assetMap[c.reqs[i].coin])

AloneEntry(c, i) == EntryOf(c.op, c.reqs[i], AloneIdx(c, i).val)

AloneAction(c, nonce) ==
    IF c.op \in UserSignOps
    THEN SetHyperliquidChain(DirectAction(c.op, c.extra, api.IS_MAINNET, nonce),
                             api.IS_MAINNET)
    ELSE ActionOf(c.op, c.reqs, c.extra,
                  [i \in 1..Len(c.reqs) |-> Some(AloneIdx(c, i))],
                  [i \in 1..Len(c.reqs) |-> Some(AloneEntry(c, i).val)]).val

AloneSigned(c, nonce) ==
    [action |-> AloneAction(c, nonce),
     activePool |-> IF c.op \in UserSignOps THEN Null ELSE SignedVault(c.op, c.extra),
     nonce |-> nonce]

AloneSignature(c, nonce) == SignOf(c.op, api.wallet, AloneSigned(c, nonce), api.IS_MAINNET)

AsAlone(c) ==
    /\ \A i \in DOMAIN c.idx : c.idx[i] /= Undefined => c.idx[i] = Some(AloneIdx(c, i))
    /\ \A i \in DOMAIN c.wires :
            c.wires[i] /= Undefined => c.wires[i] = Some(AloneEntry(c, i).val)
    /\ c.signed /= Undefined
        => /\ c.action = Some(AloneAction(c, NonceOf(c)))
           /\ c.signed = Some(AloneSigned(c, NonceOf(c)))
    /\ c.sig /= Undefined => c.sig = Some(AloneSignature(c, NonceOf(c)))
    /\ c.payload /= Undefined
        => c.payload = Some(PayloadOf(c.op, c.extra, AloneAction(c, NonceOf(c)),
                                      NonceOf(c), AloneSignature(c, NonceOf(c)).val))

\* the cache of a call holds what the call itself resolved, and nothing else
OwnCache(c) ==
    \A coin \in Coins :
        c.cache[coin] /= Undefined
            => /\ c.op \in CachingOps
               /\ \E i \in DOMAIN c.reqs :
                    /\ c.reqs[i].coin = coin
                    /\ c.idx[i] /= Undefined
                    /\ c.cache[coin] = Some(Get(c.idx[i]).val)

Independent == \A c \in Calls : AsAlone(c) /\ OwnCache(c)

\* a step of the running call leaves the waiting call as it is
OtherUntouched == cc_id' = cc_id => cc_other' = cc_other

\* C25: when two calls interleave, the action, the typed data and the payload of
\* each are what the call produces alone from the same arguments, resolver
\* answers and clock reading, and the asset-index cache of a call is neither
\* read nor written by the other
C25_CallsIndependent == []Independent /\ [][OtherUntouched]_vars

\* the second placeOrder call has been submitted while the first, for the same
\* coin, still waits with its cache filled
C25_Witness ==
    /\ cc_id = 2
    /\ ex_op = "placeOrder"
    /\ ex_payload /= Undefined
    /\ cc_other.op = "placeOrder"
    /\ cc_other.pc = "resolving"
    /\ cc_other.cache["ETH"] /= Undefined
    /\ ex_cache["ETH"] /= Undefined
====
